---- MODULE Spec2Model ----
(***************************************************************************)
(* Queue-based shift scheduler (backend/scheduler.py, ShiftScheduler, and  *)
(* its twin backend/queue_scheduler.py, QueueScheduler).                   *)
(*                                                                         *)
(* Conventions of the model                                                *)
(*   - an instant is a number of minutes since midnight of day 0; the      *)
(*     classifier reads hour = (t \div 60) % 24 and minute = t % 60;        *)
(*   - a duration is a number of minutes, so "duration_hours" and          *)
(*     "total_hours" hold hours * 60;                                      *)
(*   - guards are 1..G in input order, posts 1..P in caller order;         *)
(*   - Python's None is the value None below (no guard, no instant);       *)
(*   - a penalty is the code's float multiplied by len(guards), which      *)
(*     keeps the division by len(guards) exact.                            *)
(***************************************************************************)
EXTENDS Integers, Sequences, FiniteSets, TLC

(* ------------------------------ bounds -------------------------------- *)
MaxGuards == 6
MaxPosts == 2
MaxHorizonHours == 48
MaxSessionGuards == 3
MaxSessions == 2
MaxLoopGuards == 2
MaxOrderGuards == 2

(* ------------------------- program constants -------------------------- *)
NightPenalty == 100
BalanceWeight == 5
LookaheadLimit == 5

None == -1
Infinity == -2

VARIABLES
    guards,                  \* self.guards: input order of the guard ids
    posts,                   \* self.posts: caller-supplied order of the posts
    post_configs,            \* QueueScheduler's self.posts: post -> its configuration
    unavailability,          \* self.unavailability: guard -> sequence of <<start, end>>
    schedule_start,          \* self.schedule_start
    schedule_end,            \* self.schedule_end
    day_shift_duration,      \* self.day_shift_duration (minutes)
    night_shift_duration,    \* self.night_shift_duration (minutes)
    night_time_range,        \* self.night_time_range, parsed "HH:MM" pairs
    max_consecutive_nights,  \* self.max_consecutive_nights
    guard_queues,            \* self.guard_queues: post -> deque of guards, front first
    guard_states,            \* self.guard_states: guard -> statistics
    time_slots,              \* self.time_slots
    assignments,             \* solve(): assignments
    slot_assignments,        \* solve(): slot_assignments of the slot in progress
    failed_slots,            \* solve(): failed_slots
    slot_i,                  \* solve(): index of the slot of the outer loop
    post_i,                  \* solve(): index of the post of the inner loop
    pc,                      \* "solve" while solve() runs, "done" once it returned
    result,                  \* value returned by solve()
    saved_state,             \* the snapshot the engine was constructed from, if any
    reset_queue_orders,      \* continue_from_saved_state(): the flag it was called with
    session,                 \* number of engines constructed so far
    earlier,                 \* the engine the snapshot was exported from: what it
                             \* was constructed with and what its solve() produced
    selected_penalties,      \* penalty of each successful selection of this solve()
    last,                    \* the latest selection made by solve(), for the properties
    call,                    \* a function applied on its own: its name and arguments
    returned                 \* what that application returned

vars == <<guards, posts, post_configs, unavailability, schedule_start, schedule_end,
          day_shift_duration, night_shift_duration, night_time_range,
          max_consecutive_nights, guard_queues, guard_states, time_slots,
          assignments, slot_assignments, failed_slots, slot_i, post_i, pc,
          result, saved_state, reset_queue_orders, session, earlier,
          selected_penalties, last, call, returned>>

\* the variables of an engine and of its solve()
engine == <<guards, posts, post_configs, unavailability, schedule_start, schedule_end,
            day_shift_duration, night_shift_duration, night_time_range,
            max_consecutive_nights, guard_queues, guard_states, time_slots,
            assignments, slot_assignments, failed_slots, slot_i, post_i, pc,
            result, saved_state, reset_queue_orders, session, earlier,
            selected_penalties, last>>

\* the variables of a function applied on its own
application == <<call, returned>>

config == <<guards, posts, post_configs, unavailability, schedule_start, schedule_end,
            day_shift_duration, night_shift_duration, night_time_range,
            max_consecutive_nights, time_slots, saved_state, reset_queue_orders,
            session, earlier>>

(* ------------------------------ helpers ------------------------------- *)
Range(s) == {s[i] : i \in DOMAIN s}

Min(a, b) == IF a < b THEN a ELSE b

\* sum(s["total_shifts"] for s in self.guard_states.values()), over the
\* first i guards
RECURSIVE SumShifts(_, _, _)
SumShifts(states, guard_list, i) ==
    IF i = 0 THEN 0
    ELSE states[guard_list[i]].total_shifts + SumShifts(states, guard_list, i - 1)

\* deque.rotate(-1): the front element moves to the back
rotate(queue) == IF queue = <<>> THEN queue ELSE Tail(queue) \o <<Head(queue)>>

(* ------------------------- night classification ----------------------- *)
\* Variant: the minute of the window's end counts as night.
_is_night_shift_EndInclusive(night_range, shift_start) ==
    LET hour   == (shift_start \div 60) % 24
        minute == shift_start % 60
    IN  IF night_range.start_hour > night_range.end_hour
        THEN \/ hour > night_range.start_hour
             \/ hour < night_range.end_hour
             \/ (hour = night_range.start_hour /\ minute >= night_range.start_min)
             \/ (hour = night_range.end_hour /\ minute <= night_range.end_min)
        ELSE \/ (night_range.start_hour < hour /\ hour < night_range.end_hour)
             \/ (hour = night_range.start_hour /\ minute >= night_range.start_min)
             \/ (hour = night_range.end_hour /\ minute <= night_range.end_min)

\* night_range is self.night_time_range with both "HH:MM" strings parsed.
_is_night_shift(night_range, shift_start) ==
    LET night_start_hour == night_range.start_hour
        night_start_min  == night_range.start_min
        night_end_hour   == night_range.end_hour
        night_end_min    == night_range.end_min
        hour   == (shift_start \div 60) % 24
        minute == shift_start % 60
    IN  IF night_start_hour > night_end_hour
        THEN \/ hour > night_start_hour
             \/ hour < night_end_hour
             \/ (hour = night_start_hour /\ minute >= night_start_min)
             \/ (hour = night_end_hour /\ minute < night_end_min)
        ELSE \/ (night_start_hour < hour /\ hour < night_end_hour)
             \/ (hour = night_start_hour /\ minute >= night_start_min)
             \/ (hour = night_end_hour /\ minute < night_end_min)

(* --------------------------- slot generation -------------------------- *)
\* The while loop of _generate_time_slots from the cursor "current" on.
RECURSIVE GenerateFrom(_, _, _, _, _)
GenerateFrom(current, end, night_range, day, night) ==
    IF current < end
    THEN LET is_night == _is_night_shift(night_range, current)
             duration == IF is_night THEN night ELSE day
             slot == [start |-> current, end |-> current + duration,
                      is_night |-> is_night, duration_hours |-> duration]
         IN  <<slot>> \o GenerateFrom(current + duration, end, night_range, day, night)
    ELSE <<>>

\* Variant: the last slot is cut at the schedule end.
_generate_time_slots_Clipped(start, end, night_range, day, night) ==
    LET slots == GenerateFrom(start, end, night_range, day, night)
    IN  [i \in DOMAIN slots |->
            IF slots[i].end > end
            THEN [slots[i] EXCEPT !.end = end, !.duration_hours = end - slots[i].start]
            ELSE slots[i]]

_generate_time_slots(start, end, night_range, day, night) ==
    GenerateFrom(start, end, night_range, day, night)

(* ----------------------------- availability --------------------------- *)
\* Variant: only the shift's start is tested against the window.
_is_guard_available_StartOnly(unavail, guard, shift_start, shift_end) ==
    \A w \in DOMAIN unavail[guard] :
        LET unavail_start == unavail[guard][w][1]
            unavail_end   == unavail[guard][w][2]
        IN  shift_start < unavail_start \/ shift_start >= unavail_end

\* unavail is self.unavailability; a guard without an entry has no window.
_is_guard_available(unavail, guard, shift_start, shift_end) ==
    \A w \in DOMAIN unavail[guard] :
        LET unavail_start == unavail[guard][w][1]
            unavail_end   == unavail[guard][w][2]
        IN  shift_end <= unavail_start \/ shift_start >= unavail_end

(* ------------------------------- penalty ------------------------------ *)
\* Variant: the balance term is left out.
_calculate_penalty_NoBalance(states, max_nights, guard_list, guard, slot) ==
    IF slot.is_night /\ states[guard].consecutive_nights >= max_nights
    THEN NightPenalty * Len(guard_list) ELSE 0

\* Variant: the night penalty applies only above the maximum.
_calculate_penalty_Above(states, max_nights, guard_list, guard, slot) ==
    LET state == states[guard]
        n == Len(guard_list)
        night_part ==
            IF slot.is_night /\ state.consecutive_nights > max_nights
            THEN NightPenalty * n ELSE 0
        sum_shifts == SumShifts(states, guard_list, n)
        balance_part ==
            IF state.total_shifts * n > sum_shifts
            THEN (state.total_shifts * n - sum_shifts) * BalanceWeight ELSE 0
    IN  night_part + balance_part

\* The result is the code's penalty multiplied by len(guards):
\* avg_shifts = sum / len(guards), so (total_shifts - avg_shifts) * 5.0 is
\* (total_shifts * len(guards) - sum) * 5 / len(guards).
_calculate_penalty(states, max_nights, guard_list, guard, slot) ==
    LET state == states[guard]
        n == Len(guard_list)
        night_part ==
            IF slot.is_night /\ state.consecutive_nights >= max_nights
            THEN NightPenalty * n ELSE 0
        sum_shifts == SumShifts(states, guard_list, n)
        balance_part ==
            IF state.total_shifts * n > sum_shifts
            THEN (state.total_shifts * n - sum_shifts) * BalanceWeight ELSE 0
    IN  night_part + balance_part

(* ------------------------------ selection ----------------------------- *)
\* Variant: a later guard with an equal penalty replaces the candidate.
PenaltyLess_OrEqual(penalty, best_penalty) ==
    best_penalty = Infinity \/ penalty <= best_penalty

\* penalty < best_penalty, where best_penalty starts at float("inf")
PenaltyLess(penalty, best_penalty) ==
    best_penalty = Infinity \/ penalty < best_penalty

\* Variant: the cutoff does not ask for a candidate.
CutoffReached_NoCandidate(checked_guards, queue_len, best_guard) ==
    checked_guards >= Min(queue_len, LookaheadLimit)

\* Variant: the scan is cut off after three guards.
CutoffReached_AfterThree(checked_guards, queue_len, best_guard) ==
    checked_guards >= Min(queue_len, 3) /\ best_guard # None

\* "if checked_guards >= min(len(queue), 5) and best_guard: break"
CutoffReached(checked_guards, queue_len, best_guard) ==
    checked_guards >= Min(queue_len, LookaheadLimit) /\ best_guard # None

\* One pass of "for _ in range(len(queue))" of _find_best_guard with
\* "remaining" iterations left; s holds the loop's locals.
RECURSIVE ScanLoop(_, _, _, _, _, _, _)
ScanLoop(s, remaining, unavail, states, max_nights, guard_list, slot) ==
    IF remaining = 0 THEN s
    ELSE
      LET guard == Head(s.queue)
          queue == rotate(s.queue)
          checked_guards == s.checked_guards + 1
          available == _is_guard_available(unavail, guard, slot.start, slot.end)
          penalty == _calculate_penalty(states, max_nights, guard_list, guard, slot)
          better == available /\ PenaltyLess(penalty, s.best_penalty)
          best_guard == IF better THEN guard ELSE s.best_guard
          best_penalty == IF better THEN penalty ELSE s.best_penalty
          s2 == [queue |-> queue, best_guard |-> best_guard,
                 best_penalty |-> best_penalty, checked_guards |-> checked_guards]
      IN  IF available /\ penalty = 0 THEN s2
          ELSE IF CutoffReached(checked_guards, Len(queue), best_guard)
               THEN s2
               ELSE ScanLoop(s2, remaining - 1, unavail, states, max_nights,
                             guard_list, slot)

\* Variant: the best guard changes places with the guard at the front.
RotateTo_Exchange(queue, guard) ==
    LET n == CHOOSE i \in DOMAIN queue : queue[i] = guard
    IN  [queue EXCEPT ![1] = guard, ![n] = queue[1]]

\* "while queue[0] != best_guard: queue.rotate(-1)"
RECURSIVE RotateTo(_, _)
RotateTo(queue, guard) ==
    IF Head(queue) = guard THEN queue ELSE RotateTo(rotate(queue), guard)

\* Variant: original_queue is captured after the first rotation.
NoGuardFound_Late(original_queue, queue) == rotate(original_queue)

\* "self.guard_queues[post] = deque(original_queue)" when no guard was found
NoGuardFound(original_queue, queue) == original_queue

\* Variant: the assigned guard is popped and not appended again.
PopleftAppend_Lost(queue) == Tail(queue)

\* Variant: the assigned guard stays at the front.
PopleftAppend_Stay(queue) == queue

\* "assigned_guard = queue.popleft(); queue.append(assigned_guard)"
PopleftAppend(queue) == Tail(queue) \o <<Head(queue)>>

\* Returns the guard (or None), the queue the post is left with, and the
\* number of guards examined and the winning penalty for the properties.
_find_best_guard(queue0, unavail, states, max_nights, guard_list, slot) ==
    LET original_queue == queue0
        s == ScanLoop([queue |-> queue0, best_guard |-> None,
                       best_penalty |-> Infinity, checked_guards |-> 0],
                      Len(queue0), unavail, states, max_nights, guard_list, slot)
    IN  IF s.best_guard = None
        THEN [guard |-> None, queue |-> NoGuardFound(original_queue, s.queue),
              checked_guards |-> s.checked_guards, penalty |-> Infinity]
        ELSE LET rotated == RotateTo(s.queue, s.best_guard)
                 assigned_guard == Head(rotated)
             IN  [guard |-> assigned_guard,
                  queue |-> PopleftAppend(rotated),
                  checked_guards |-> s.checked_guards, penalty |-> s.best_penalty]

(* ------------------------------ recording ----------------------------- *)
\* Variant: a non-night shift leaves the streak as it was.
_assign_shift_KeepStreak(states, guard, slot) ==
    [states EXCEPT ![guard] =
        [last_shift_end     |-> slot.end,
         total_shifts       |-> @.total_shifts + 1,
         total_hours        |-> @.total_hours + slot.duration_hours,
         consecutive_nights |-> IF slot.is_night THEN @.consecutive_nights + 1
                                ELSE @.consecutive_nights]]

\* Variant: the hours of the slot are not added.
_assign_shift_HoursNotAdded(states, guard, slot) ==
    [states EXCEPT ![guard] =
        [last_shift_end     |-> slot.end,
         total_shifts       |-> @.total_shifts + 1,
         total_hours        |-> @.total_hours,
         consecutive_nights |-> IF slot.is_night THEN @.consecutive_nights + 1
                                ELSE 0]]

\* Variant: every guard shares one statistics record.
_assign_shift_Shared(states, guard, slot) ==
    [g \in DOMAIN states |->
        [last_shift_end     |-> slot.end,
         total_shifts       |-> states[guard].total_shifts + 1,
         total_hours        |-> states[guard].total_hours + slot.duration_hours,
         consecutive_nights |-> IF slot.is_night
                                THEN states[guard].consecutive_nights + 1
                                ELSE 0]]

_assign_shift(states, guard, slot) ==
    [states EXCEPT ![guard] =
        [last_shift_end     |-> slot.end,
         total_shifts       |-> @.total_shifts + 1,
         total_hours        |-> @.total_hours + slot.duration_hours,
         consecutive_nights |-> IF slot.is_night THEN @.consecutive_nights + 1
                                ELSE 0]]

(* --------------------------- text conversions ------------------------- *)
\* datetime.isoformat() and datetime.fromisoformat(): the text form of an
\* instant is its date (day number) and its time of day.
isoformat(t) == [day |-> t \div 1440, hour |-> (t \div 60) % 24, minute |-> t % 60]

fromisoformat(text) == text.day * 1440 + text.hour * 60 + text.minute

(* ------------------------------ inputs -------------------------------- *)
\* Configurations the engine is constructed with: start instant, night
\* window, day and night shift lengths (minutes).
Scenarios ==
    { [start |-> 0,
       range |-> [start_hour |-> 22, start_min |-> 0, end_hour |-> 6, end_min |-> 0],
       day |-> 480, night |-> 480],
      [start |-> 360,
       range |-> [start_hour |-> 22, start_min |-> 0, end_hour |-> 6, end_min |-> 0],
       day |-> 480, night |-> 720],
      [start |-> 1290,
       range |-> [start_hour |-> 21, start_min |-> 30, end_hour |-> 5, end_min |-> 30],
       day |-> 480, night |-> 240] }

\* Unavailability window lists, placed relative to the schedule start: one
\* window over the first eight hours, or two later windows.
WindowLists(start) ==
    { << <<start, start + 480>> >>,
      << <<start + 600, start + 1200>>, <<start + 1800, start + 2400>> >> }

\* The unavailability inputs: the guards of U all carry the window list w,
\* every other guard carries o (no window, or another list).
UnavailabilityChoices(G, start) ==
    { [g \in 1..G |-> IF g \in U THEN w ELSE o] :
        U \in SUBSET (1..G), w \in WindowLists(start),
        o \in {<<>>} \cup WindowLists(start) }

\* max_consecutive_nights inputs (the default is 1)
MaxNightsChoices == {1, 2}

NoState == [present |-> FALSE]

\* the first engine has none before it
NoEarlier == [present |-> FALSE]

NoSelection ==
    [outcome |-> "none", post |-> 0, slot |-> 0, guard |-> None,
     checked_guards |-> 0, penalty |-> Infinity,
     queues_before |-> <<>>, states_before |-> <<>>]

\* for guard in guards: the statistics of a freshly constructed engine
FreshStates(guard_list) ==
    [g \in Range(guard_list) |->
        [last_shift_end |-> None, consecutive_nights |-> 0,
         total_shifts |-> 0, total_hours |-> 0]]

\* Variant: every queue starts in the reverse of the input order.
_initialize_guard_queues_Reversed(post_list, guard_list) ==
    [p \in Range(post_list) |->
        [i \in DOMAIN guard_list |-> guard_list[Len(guard_list) + 1 - i]]]

\* _initialize_guard_queues(None): the input order for every post
_initialize_guard_queues(post_list, guard_list) ==
    [p \in Range(post_list) |-> guard_list]

\* ShiftScheduler.__init__ without saved_state and without custom orders,
\* for a horizon of the given number of hours
ConstructFor(G, P, sc, mcn, unavail, hours) ==
    /\ guards = [i \in 1..G |-> i]
    /\ posts = [i \in 1..P |-> i]
    /\ unavailability = unavail
    /\ schedule_start = sc.start
    /\ schedule_end = sc.start + hours * 60
    /\ day_shift_duration = sc.day
    /\ night_shift_duration = sc.night
    /\ night_time_range = sc.range
    /\ max_consecutive_nights = mcn
    /\ guard_queues = _initialize_guard_queues(posts, guards)
    /\ guard_states = FreshStates(guards)
    /\ time_slots = _generate_time_slots(schedule_start, schedule_end,
                                         night_time_range, day_shift_duration,
                                         night_shift_duration)
    /\ saved_state = NoState
    /\ reset_queue_orders = FALSE
    /\ session = 1
    /\ earlier = NoEarlier

\* the same for the longest horizon
Construct(G, P, sc, mcn, unavail) ==
    ConstructFor(G, P, sc, mcn, unavail, MaxHorizonHours)

\* solve() entered: its locals
SolveEntry ==
    /\ assignments = <<>>
    /\ slot_assignments = <<>>
    /\ failed_slots = <<>>
    /\ slot_i = 1
    /\ post_i = 1
    /\ pc = "solve"
    /\ result = [none |-> TRUE, value |-> <<>>]
    /\ selected_penalties = <<>>
    /\ last = NoSelection

\* ShiftScheduler takes a list of posts and no configuration of them
NoConfigs == <<>>

\* no function is applied on its own while an engine runs
NoCall == [function |-> "none"]
NoReturn == [returned |-> FALSE]
NoApplication == call = NoCall /\ returned = NoReturn

Init ==
    \E G \in 1..MaxGuards, P \in 1..MaxPosts, sc \in Scenarios,
       mcn \in MaxNightsChoices :
      \E unavail \in UnavailabilityChoices(G, sc.start) :
        /\ Construct(G, P, sc, mcn, unavail)
        /\ post_configs = NoConfigs
        /\ SolveEntry
        /\ NoApplication

(* ------------------------------- solve -------------------------------- *)
\* Variant: the scan starts at the front of the queue or one guard later.
SolveStep_EitherStart ==
    /\ pc = "solve"
    /\ slot_i <= Len(time_slots)
    /\ \E r \in {_find_best_guard(guard_queues[posts[post_i]], unavailability,
                                  guard_states, max_consecutive_nights, guards,
                                  time_slots[slot_i]),
                 _find_best_guard(rotate(guard_queues[posts[post_i]]), unavailability,
                                  guard_states, max_consecutive_nights, guards,
                                  time_slots[slot_i])} :
       LET slot == time_slots[slot_i]
           post == posts[post_i]
           assignment == [guard_id |-> r.guard, post_id |-> post,
                          shift_start_time |-> isoformat(slot.start),
                          shift_end_time |-> isoformat(slot.end)]
           slot_assignments2 == IF r.guard # None
                                THEN Append(slot_assignments, assignment)
                                ELSE slot_assignments
       IN  /\ guard_queues' = [guard_queues EXCEPT ![post] = r.queue]
           /\ guard_states' = IF r.guard # None
                              THEN _assign_shift(guard_states, r.guard, slot)
                              ELSE guard_states
           /\ failed_slots' = IF r.guard # None THEN failed_slots
                              ELSE Append(failed_slots, <<slot_i, post>>)
           /\ selected_penalties' = IF r.guard # None
                                    THEN Append(selected_penalties, r.penalty)
                                    ELSE selected_penalties
           /\ last' = [outcome |-> IF r.guard # None THEN "assigned" ELSE "unmet",
                       post |-> post, slot |-> slot_i, guard |-> r.guard,
                       checked_guards |-> r.checked_guards, penalty |-> r.penalty,
                       queues_before |-> guard_queues,
                       states_before |-> guard_states]
           /\ IF post_i = Len(posts)
              THEN /\ assignments' = assignments \o slot_assignments2
                   /\ slot_assignments' = <<>>
                   /\ slot_i' = slot_i + 1
                   /\ post_i' = 1
              ELSE /\ assignments' = assignments
                   /\ slot_assignments' = slot_assignments2
                   /\ slot_i' = slot_i
                   /\ post_i' = post_i + 1
    /\ UNCHANGED <<config, pc, result, application>>

\* One iteration of "for post in self.posts" inside "for slot in
\* self.time_slots": the selection, and on success the assignment.
SolveStepEngine ==
    /\ pc = "solve"
    /\ slot_i <= Len(time_slots)
    /\ \E r \in {_find_best_guard(guard_queues[posts[post_i]], unavailability,
                                  guard_states, max_consecutive_nights, guards,
                                  time_slots[slot_i])} :
       LET slot == time_slots[slot_i]
           post == posts[post_i]
           assignment == [guard_id |-> r.guard, post_id |-> post,
                          shift_start_time |-> isoformat(slot.start),
                          shift_end_time |-> isoformat(slot.end)]
           slot_assignments2 == IF r.guard # None
                                THEN Append(slot_assignments, assignment)
                                ELSE slot_assignments
       IN  /\ guard_queues' = [guard_queues EXCEPT ![post] = r.queue]
           /\ guard_states' = IF r.guard # None
                              THEN _assign_shift(guard_states, r.guard, slot)
                              ELSE guard_states
           /\ failed_slots' = IF r.guard # None THEN failed_slots
                              ELSE Append(failed_slots, <<slot_i, post>>)
           /\ selected_penalties' = IF r.guard # None
                                    THEN Append(selected_penalties, r.penalty)
                                    ELSE selected_penalties
           /\ last' = [outcome |-> IF r.guard # None THEN "assigned" ELSE "unmet",
                       post |-> post, slot |-> slot_i, guard |-> r.guard,
                       checked_guards |-> r.checked_guards, penalty |-> r.penalty,
                       queues_before |-> guard_queues,
                       states_before |-> guard_states]
           /\ IF post_i = Len(posts)
              THEN /\ assignments' = assignments \o slot_assignments2
                   /\ slot_assignments' = <<>>
                   /\ slot_i' = slot_i + 1
                   /\ post_i' = 1
              ELSE /\ assignments' = assignments
                   /\ slot_assignments' = slot_assignments2
                   /\ slot_i' = slot_i
                   /\ post_i' = post_i + 1
    /\ UNCHANGED <<pc, result>>

\* solve() writes to the queues and statistics of its engine only.
SolveStep == SolveStepEngine /\ UNCHANGED <<config, application>>

\* Variant: a run with unmet demand reports total failure.
SolveReturn_FailsOnGaps ==
    /\ pc = "solve"
    /\ slot_i > Len(time_slots)
    /\ pc' = "done"
    /\ result' = IF assignments # <<>> /\ failed_slots = <<>>
                 THEN [none |-> FALSE, value |-> assignments]
                 ELSE [none |-> TRUE, value |-> <<>>]
    /\ UNCHANGED <<config, guard_queues, guard_states, assignments,
                   slot_assignments, failed_slots, slot_i, post_i,
                   selected_penalties, last, application>>

\* "return assignments if assignments else None"
SolveReturn ==
    /\ pc = "solve"
    /\ slot_i > Len(time_slots)
    /\ pc' = "done"
    /\ result' = IF assignments # <<>> THEN [none |-> FALSE, value |-> assignments]
                 ELSE [none |-> TRUE, value |-> <<>>]
    /\ UNCHANGED <<config, guard_queues, guard_states, assignments,
                   slot_assignments, failed_slots, slot_i, post_i,
                   selected_penalties, last, application>>

Next == SolveStep \/ SolveReturn

Spec == Init /\ [][Next]_vars

(* ------------------------- export and continue ------------------------ *)
\* The text of an optional instant: isoformat() of it, or None.
NoText == [none |-> TRUE]
IsNoText(text) == "none" \in DOMAIN text

\* Variant: the shift counts are exported as zero.
get_scheduler_state_FreshCounts ==
    [present |-> TRUE,
     guard_queues |-> [p \in DOMAIN guard_queues |-> guard_queues[p]],
     guard_states |->
        [g \in DOMAIN guard_states |->
            [guard_states[g] EXCEPT
                !.total_shifts = 0,
                !.last_shift_end = IF @ # None THEN isoformat(@) ELSE NoText]],
     schedule_metadata |->
        [last_scheduled_end |-> isoformat(schedule_end),
         posts |-> posts,
         guards |-> guards,
         guards_input_order |-> guards,
         current_queue_orders |-> [p \in DOMAIN guard_queues |-> guard_queues[p]],
         shift_lengths |-> [day_shift_hours |-> day_shift_duration,
                            night_shift_hours |-> night_shift_duration],
         night_time_range |-> night_time_range,
         max_consecutive_nights |-> max_consecutive_nights]]

\* get_scheduler_state(); the export timestamp (datetime.now()) is left out,
\* nothing reads it back.  Shift lengths are carried in minutes.
get_scheduler_state ==
    [present |-> TRUE,
     guard_queues |-> [p \in DOMAIN guard_queues |-> guard_queues[p]],
     guard_states |->
        [g \in DOMAIN guard_states |->
            [guard_states[g] EXCEPT
                !.last_shift_end = IF @ # None THEN isoformat(@) ELSE NoText]],
     schedule_metadata |->
        [last_scheduled_end |-> isoformat(schedule_end),
         posts |-> posts,
         guards |-> guards,
         guards_input_order |-> guards,
         current_queue_orders |-> [p \in DOMAIN guard_queues |-> guard_queues[p]],
         shift_lengths |-> [day_shift_hours |-> day_shift_duration,
                            night_shift_hours |-> night_shift_duration],
         night_time_range |-> night_time_range,
         max_consecutive_nights |-> max_consecutive_nights]]

\* Variant: the queues come back in the recorded input order.
RestoredQueues_InputOrder(saved, post_list) ==
    [p \in Range(post_list) |-> saved.schedule_metadata.guards_input_order]

\* _restore_from_state(saved_state): the queues of the engine's posts
RestoredQueues(saved, post_list) ==
    [p \in Range(post_list) |-> saved.guard_queues[p]]

\* Variant: the night streaks are not carried over.
RestoredStates_FreshStreak(saved, guard_list) ==
    [g \in Range(guard_list) |->
        [saved.guard_states[g] EXCEPT
            !.consecutive_nights = 0,
            !.last_shift_end = IF IsNoText(@) THEN None ELSE fromisoformat(@)]]

\* _restore_from_state(saved_state): the statistics of the engine's guards
RestoredStates(saved, guard_list) ==
    [g \in Range(guard_list) |->
        [saved.guard_states[g] EXCEPT
            !.last_shift_end = IF IsNoText(@) THEN None ELSE fromisoformat(@)]]

\* What the running engine was constructed with: __init__ restores from
\* saved_state when it is given one, and starts fresh otherwise.
ConstructedQueues ==
    IF saved_state.present THEN RestoredQueues(saved_state, posts)
    ELSE _initialize_guard_queues(posts, guards)
ConstructedStates ==
    IF saved_state.present THEN RestoredStates(saved_state, guards)
    ELSE FreshStates(guards)

\* Inputs of a continuation: the new end, hours after the recorded end
ContinuationHours == {24}

\* Inputs of a continuation: no new unavailability, or the windows of the
\* previous engine again
ContinuationUnavailability(previous) ==
    { [g \in DOMAIN previous |-> <<>>], previous }

\* continue_from_saved_state(new_end, get_scheduler_state(), new_unavailability,
\* reset) followed by solve() on the engine it returns.  __init__ is given
\* saved_state and restores from it; initial_queue_orders is read only in
\* the branch without saved_state.  horizons: the hours from the recorded
\* end to the new end; snapshots: the documents the caller may hand in.
ContinueFrom(snapshots, horizons) ==
    /\ pc = "done"
    /\ session < MaxSessions
    /\ \E snapshot \in snapshots :
       \E hours \in horizons :
       \E new_unavailability \in ContinuationUnavailability(unavailability) :
       \E reset \in BOOLEAN :
         LET metadata == snapshot.schedule_metadata
             start == fromisoformat(metadata.last_scheduled_end)
         IN  /\ guards' = metadata.guards
             /\ posts' = metadata.posts
             /\ post_configs' = NoConfigs
             /\ unavailability' = new_unavailability
             /\ schedule_start' = start
             /\ schedule_end' = start + hours * 60
             /\ day_shift_duration' = metadata.shift_lengths.day_shift_hours
             /\ night_shift_duration' = metadata.shift_lengths.night_shift_hours
             /\ night_time_range' = metadata.night_time_range
             /\ max_consecutive_nights' = metadata.max_consecutive_nights
             /\ saved_state' = snapshot
             /\ reset_queue_orders' = reset
             /\ earlier' = [present |-> TRUE,
                             schedule_start |-> schedule_start,
                             schedule_end |-> schedule_end,
                             unavailability |-> unavailability,
                             guard_queues |-> ConstructedQueues,
                             guard_states |-> ConstructedStates,
                             assignments |-> assignments,
                             failed |-> Len(failed_slots)]
             /\ guard_queues' = RestoredQueues(snapshot, metadata.posts)
             /\ guard_states' = RestoredStates(snapshot, metadata.guards)
             /\ time_slots' = _generate_time_slots(
                                 start, start + hours * 60,
                                 metadata.night_time_range,
                                 metadata.shift_lengths.day_shift_hours,
                                 metadata.shift_lengths.night_shift_hours)
    /\ session' = session + 1
    /\ assignments' = <<>>
    /\ slot_assignments' = <<>>
    /\ failed_slots' = <<>>
    /\ slot_i' = 1
    /\ post_i' = 1
    /\ pc' = "solve"
    /\ result' = [none |-> TRUE, value |-> <<>>]
    /\ selected_penalties' = <<>>
    /\ last' = NoSelection
    /\ UNCHANGED application

\* The snapshot handed in is the one the engine exported.
ContinueTo(horizons) == ContinueFrom({get_scheduler_state}, horizons)

Continue == ContinueTo(ContinuationHours)

\* Snapshot documents edited between export and import: one post's queue
\* has lost its front guard, or holds a guard twice.
EditedSnapshots(snapshot) ==
    UNION { { [snapshot EXCEPT !.guard_queues[p] = Tail(@)],
              [snapshot EXCEPT !.guard_queues[p] = Append(@, @[1])] } :
            p \in DOMAIN snapshot.guard_queues }

\* continue_from_saved_state on the exported document or on an edited one
Import ==
    ContinueFrom({get_scheduler_state} \cup EditedSnapshots(get_scheduler_state),
                 ContinuationHours)


\* Export, then import with the new end equal to the recorded end: the
\* engine built has no slot to solve.
Reimport == ContinueTo({0})

NextRoundTrip == SolveStep \/ SolveReturn \/ Reimport

SpecRoundTrip == Init /\ [][NextRoundTrip]_vars

InitSessions ==
    \E G \in 1..MaxSessionGuards, P \in 1..MaxPosts, sc \in Scenarios,
       mcn \in MaxNightsChoices :
      \E unavail \in UnavailabilityChoices(G, sc.start) :
        /\ Construct(G, P, sc, mcn, unavail)
        /\ post_configs = NoConfigs
        /\ SolveEntry
        /\ NoApplication

NextSessions == SolveStep \/ SolveReturn \/ Continue

SpecSessions == InitSessions /\ [][NextSessions]_vars

NextImport == SolveStep \/ SolveReturn \/ Import

(* ---------------- snapshot documents and shared objects ---------------- *)
\* The objects get_scheduler_state puts into the document as they are:
\* self.posts, self.guards and self.night_time_range.  The queues are
\* copied by list(queue), the statistics by {**state, ...}.
ExportShares == {"posts", "guards", "night_time_range"}

\* Variant: the statistics are restored without .copy().
ImportShares_StatesNotCopied == {"posts", "guards", "night_time_range", "guard_states"}

\* The objects of the document the engine built from it keeps using:
\* continue_from_saved_state passes metadata["guards"], metadata["posts"]
\* and metadata["night_time_range"] on; _restore_from_state copies the
\* queues by deque(...) and the statistics by .copy().
ImportShares == {"posts", "guards", "night_time_range"}

\* A document after a step of solve(): a part the engine shares with it
\* shows what the step wrote to the engine.
AfterSolveStep(document, shares, queues, states) ==
    IF ~document.present THEN document
    ELSE [document EXCEPT
            !.guard_queues = IF "guard_queues" \in shares THEN queues ELSE @,
            !.guard_states =
                IF "guard_states" \in shares
                THEN [g \in DOMAIN states |->
                        [states[g] EXCEPT
                            !.last_shift_end = IF @ # None THEN isoformat(@)
                                               ELSE NoText]]
                ELSE @]

\* The document this engine exported, if it exported one
Exported == IF returned.returned THEN returned.value ELSE NoState

\* One iteration of solve() with the documents the caller holds: the one
\* the engine was built from and the one it exported.
SolveStepSharing ==
    /\ SolveStepEngine
    /\ saved_state' = AfterSolveStep(saved_state, ImportShares,
                                     guard_queues', guard_states')
    /\ returned' = IF returned.returned /\ session = Exported.exported_by
                   THEN [returned EXCEPT
                           !.value = AfterSolveStep(@, ExportShares,
                                                    guard_queues', guard_states')]
                   ELSE returned
    /\ UNCHANGED <<guards, posts, post_configs, unavailability, schedule_start,
                   schedule_end, day_shift_duration, night_shift_duration,
                   night_time_range, max_consecutive_nights, time_slots,
                   reset_queue_orders, session, earlier, call>>

\* get_scheduler_state(), once, after a solve(); the document is kept
\* with the number of the engine that exported it.
Export ==
    /\ pc = "done"
    /\ returned = NoReturn
    /\ call' = [function |-> "get_scheduler_state"]
    /\ returned' = [returned |-> TRUE,
                    value |-> [exported_by |-> session] @@ get_scheduler_state]
    /\ UNCHANGED engine

\* solve() called again on the engine that exported
SolveAgain ==
    /\ pc = "done"
    /\ call.function = "get_scheduler_state"
    /\ call' = [function |-> "solve"]
    /\ assignments' = <<>>
    /\ slot_assignments' = <<>>
    /\ failed_slots' = <<>>
    /\ slot_i' = 1
    /\ post_i' = 1
    /\ pc' = "solve"
    /\ result' = [none |-> TRUE, value |-> <<>>]
    /\ selected_penalties' = <<>>
    /\ last' = NoSelection
    /\ UNCHANGED <<config, guard_queues, guard_states, returned>>

NextDocuments == SolveStepSharing \/ SolveReturn \/ Export \/ SolveAgain \/ Continue

SpecDocuments == InitSessions /\ [][NextDocuments]_vars

SpecImport == InitSessions /\ [][NextImport]_vars

\* The same engines for shorter first horizons (hours), so that the first
\* run ends on a slot boundary of a longer run, or between two boundaries.
FirstHorizons == {8, 16, 20, 24}

InitSplit ==
    \E G \in 1..MaxSessionGuards, P \in 1..MaxPosts, sc \in Scenarios,
       mcn \in MaxNightsChoices, hours \in FirstHorizons :
      \E unavail \in UnavailabilityChoices(G, sc.start) :
        /\ ConstructFor(G, P, sc, mcn, unavail, hours)
        /\ post_configs = NoConfigs
        /\ SolveEntry
        /\ NoApplication

SpecSplit == InitSplit /\ [][NextSessions]_vars

(* -------------------- functions applied on their own ------------------- *)
\* No engine is running: its variables hold nothing.
NoEngine ==
    /\ guards = <<>>
    /\ posts = <<>>
    /\ post_configs = NoConfigs
    /\ unavailability = <<>>
    /\ schedule_start = 0
    /\ schedule_end = 0
    /\ day_shift_duration = 0
    /\ night_shift_duration = 0
    /\ night_time_range = [start_hour |-> 0, start_min |-> 0,
                           end_hour |-> 0, end_min |-> 0]
    /\ max_consecutive_nights = 1
    /\ guard_queues = <<>>
    /\ guard_states = <<>>
    /\ time_slots = <<>>
    /\ assignments = <<>>
    /\ slot_assignments = <<>>
    /\ failed_slots = <<>>
    /\ slot_i = 1
    /\ post_i = 1
    /\ pc = "idle"
    /\ result = [none |-> TRUE, value |-> <<>>]
    /\ saved_state = NoState
    /\ reset_queue_orders = FALSE
    /\ session = 0
    /\ earlier = NoEarlier
    /\ selected_penalties = <<>>
    /\ last = NoSelection

\* The window of the examples: 22:00-06:00
TenPmToSixAm == [start_hour |-> 22, start_min |-> 0, end_hour |-> 6, end_min |-> 0]

\* Night windows the request validation lets through: hours 0..23, and
\* minutes on and off the hour.
RangeMinutes == {0, 30}
NightRanges ==
    { [start_hour |-> sh, start_min |-> sm, end_hour |-> eh, end_min |-> em] :
        sh \in 0..23, eh \in 0..23, sm \in RangeMinutes, em \in RangeMinutes }

\* Instants handed to the classifier: every hour of two days, at minutes
\* on, just before and just after the minutes of the windows.
InstantMinutes == {0, 29, 30, 59}
ClassifiedInstants ==
    { d * 1440 + h * 60 + m : d \in {0, 1}, h \in 0..23, m \in InstantMinutes }

InitClassifier ==
    /\ NoEngine
    /\ \E night_range \in NightRanges, shift_start \in ClassifiedInstants :
          call = [function |-> "_is_night_shift", night_time_range |-> night_range,
                  shift_start |-> shift_start]
    /\ returned = NoReturn

\* self._is_night_shift(shift_start)
Classify ==
    /\ call.function = "_is_night_shift"
    /\ returned = NoReturn
    /\ returned' = [returned |-> TRUE,
                    value |-> _is_night_shift(call.night_time_range, call.shift_start)]
    /\ UNCHANGED <<engine, call>>

NextClassifier == Classify

SpecClassifier == InitClassifier /\ [][NextClassifier]_vars

(* ---------------------- post requirement evaluator -------------------- *)
\* QueueScheduler._is_post_required_at_time.  A string is the sequence of
\* its characters; an optional string is [none, chars], none for None.
DigitChars == <<"0", "1", "2", "3", "4", "5", "6", "7", "8", "9">>
IsDigit(c) == \E d \in DOMAIN DigitChars : DigitChars[d] = c
DigitOf(c) == (CHOOSE d \in DOMAIN DigitChars : DigitChars[d] = c) - 1

\* str.split(sep) for a one-character separator
RECURSIVE split(_, _)
split(chars, sep) ==
    IF \A i \in DOMAIN chars : chars[i] # sep THEN <<chars>>
    ELSE LET i == CHOOSE k \in DOMAIN chars :
                      chars[k] = sep /\ \A j \in 1..(k - 1) : chars[j] # sep
         IN  <<SubSeq(chars, 1, i - 1)>> \o split(SubSeq(chars, i + 1, Len(chars)), sep)

\* int(text) of a text of decimal digits; any other text here (empty, or
\* holding a letter) makes int() raise ValueError.
IntRaises(chars) == chars = <<>> \/ \E i \in DOMAIN chars : ~IsDigit(chars[i])
RECURSIVE int(_)
int(chars) ==
    IF chars = <<>> THEN 0
    ELSE int(SubSeq(chars, 1, Len(chars) - 1)) * 10 + DigitOf(chars[Len(chars)])

\* time.strftime("%H:%M")
strftime(time) ==
    LET hour == (time \div 60) % 24
        minute == time % 60
    IN  <<DigitChars[(hour \div 10) + 1], DigitChars[(hour % 10) + 1], ":",
          DigitChars[(minute \div 10) + 1], DigitChars[(minute % 10) + 1]>>

\* "a, b = map(int, text.split(":"))": raises ValueError unless the text
\* splits into exactly two fields that int() accepts.
UnpackRaises(chars) ==
    \E fields \in {split(chars, ":")} :
        Len(fields) # 2 \/ IntRaises(fields[1]) \/ IntRaises(fields[2])
UnpackMinutes(chars) ==
    LET fields == split(chars, ":") IN int(fields[1]) * 60 + int(fields[2])

\* Variant: a bound that cannot be parsed makes the post required.
ExceptReturn_FailOpen == TRUE

\* "except (ValueError, AttributeError): return False"
ExceptReturn == FALSE

\* Variant: a configuration without the key is_24_7 is read as bounded hours.
_is_post_required_at_time_DefaultBounded(post_config, time) ==
    LET is_24_7 == post_config.has_is_24_7 /\ post_config.is_24_7
        required_start == post_config.required_hours_start
        required_end == post_config.required_hours_end
        Falsy(text) == text.none \/ text.chars = <<>>
        time_str == strftime(time)
    IN  IF is_24_7 THEN [raised |-> FALSE, value |-> TRUE]
        ELSE IF Falsy(required_start) \/ Falsy(required_end)
        THEN [raised |-> FALSE, value |-> FALSE]
        ELSE IF \/ UnpackRaises(time_str)
                \/ UnpackRaises(required_start.chars)
                \/ UnpackRaises(required_end.chars)
        THEN [raised |-> FALSE, value |-> ExceptReturn]
        ELSE LET time_minutes == UnpackMinutes(time_str)
                 start_minutes == UnpackMinutes(required_start.chars)
                 end_minutes == UnpackMinutes(required_end.chars)
             IN  [raised |-> FALSE,
                  value |-> IF start_minutes > end_minutes
                            THEN time_minutes >= start_minutes
                                 \/ time_minutes < end_minutes
                            ELSE start_minutes <= time_minutes
                                 /\ time_minutes < end_minutes]

\* The result is [raised, value]: no path of the function raises.
_is_post_required_at_time(post_config, time) ==
    LET is_24_7 == IF post_config.has_is_24_7 THEN post_config.is_24_7 ELSE TRUE
        required_start == post_config.required_hours_start
        required_end == post_config.required_hours_end
        Falsy(text) == text.none \/ text.chars = <<>>
        time_str == strftime(time)
    IN  IF is_24_7 THEN [raised |-> FALSE, value |-> TRUE]
        ELSE IF Falsy(required_start) \/ Falsy(required_end)
        THEN [raised |-> FALSE, value |-> FALSE]
        ELSE IF \/ UnpackRaises(time_str)
                \/ UnpackRaises(required_start.chars)
                \/ UnpackRaises(required_end.chars)
        THEN [raised |-> FALSE, value |-> ExceptReturn]
        ELSE LET time_minutes == UnpackMinutes(time_str)
                 start_minutes == UnpackMinutes(required_start.chars)
                 end_minutes == UnpackMinutes(required_end.chars)
             IN  [raised |-> FALSE,
                  value |-> IF start_minutes > end_minutes
                            THEN time_minutes >= start_minutes
                                 \/ time_minutes < end_minutes
                            ELSE start_minutes <= time_minutes
                                 /\ time_minutes < end_minutes]

\* Bounds of a post's required hours as the caller writes them.  Each input
\* carries, beside the optional string the evaluator reads, what the caller
\* meant by it: a time of day in minutes since midnight, a missing bound, or
\* a text that is no "HH:MM".
BoundHours == {0, 6, 9, 17, 22}
BoundMinutes == {0, 30}
Text(chars) == [none |-> FALSE, chars |-> chars]
TwoDigits(n) == <<DigitChars[(n \div 10) + 1], DigitChars[(n % 10) + 1]>>
Unpadded(n) == IF n < 10 THEN <<DigitChars[n + 1]>> ELSE TwoDigits(n)
WellFormedBounds ==
    { [kind |-> "time", minutes |-> h * 60 + m,
       text |-> Text(TwoDigits(h) \o <<":">> \o TwoDigits(m))] :
        h \in BoundHours, m \in BoundMinutes }
    \cup
    { [kind |-> "time", minutes |-> h * 60 + m,
       text |-> Text(Unpadded(h) \o <<":">> \o Unpadded(m))] :
        h \in BoundHours, m \in BoundMinutes }
MissingBounds ==
    { [kind |-> "missing", minutes |-> 0, text |-> [none |-> TRUE, chars |-> <<>>]],
      [kind |-> "missing", minutes |-> 0, text |-> Text(<<>>)] }
MalformedBounds ==
    { [kind |-> "malformed", minutes |-> 0, text |-> Text(chars)] :
        chars \in { <<"0", "8", "0", "0">>,
                    <<"0", "8", ":", "0", "0", ":", "0", "0">>,
                    <<"a", "b", ":", "c", "d">>,
                    <<"0", "8", ":">>,
                    <<":", "3", "0">> } }
Bounds == WellFormedBounds \cup MissingBounds \cup MalformedBounds

\* post_config.get("is_24_7", True): the key is absent, or holds a boolean
Is24_7Choices ==
    { [has_is_24_7 |-> FALSE, is_24_7 |-> FALSE],
      [has_is_24_7 |-> TRUE, is_24_7 |-> TRUE],
      [has_is_24_7 |-> TRUE, is_24_7 |-> FALSE] }

RequirementInstants == { 1440 + h * 60 + m : h \in 0..23, m \in InstantMinutes }

InitPostRequirement ==
    /\ NoEngine
    /\ \E flag \in Is24_7Choices, start \in Bounds, end \in Bounds,
          time \in RequirementInstants :
          call = [function |-> "_is_post_required_at_time",
                  post_config |-> [has_is_24_7 |-> flag.has_is_24_7,
                                   is_24_7 |-> flag.is_24_7,
                                   required_hours_start |-> start.text,
                                   required_hours_end |-> end.text],
                  meant |-> [start |-> [kind |-> start.kind, minutes |-> start.minutes],
                             end |-> [kind |-> end.kind, minutes |-> end.minutes]],
                  time |-> time]
    /\ returned = NoReturn

\* self._is_post_required_at_time(post_config, slot["start"])
Require ==
    /\ call.function = "_is_post_required_at_time"
    /\ returned = NoReturn
    /\ \E r \in {_is_post_required_at_time(call.post_config, call.time)} :
          returned' = [returned |-> TRUE, raised |-> r.raised, value |-> r.value]
    /\ UNCHANGED <<engine, call>>

NextPostRequirement == Require

SpecPostRequirement == InitPostRequirement /\ [][NextPostRequirement]_vars

(* ----------------------------- QueueScheduler ------------------------- *)
\* QueueScheduler is ShiftScheduler without saved state, with a
\* configuration per post; its solve() asks _is_post_required_at_time
\* before it selects.  Configurations of a post: the key is_24_7 absent
\* (required around the clock), is_24_7 true beside bounds that are then
\* not read, required 22:00-06:00, required 09:00-17:00, and a bound that
\* is no "HH:MM".
HHMM(h, m) == Text(TwoDigits(h) \o <<":">> \o TwoDigits(m))
PostConfigs ==
    { [has_is_24_7 |-> FALSE, is_24_7 |-> FALSE,
       required_hours_start |-> [none |-> TRUE, chars |-> <<>>],
       required_hours_end |-> [none |-> TRUE, chars |-> <<>>]],
      [has_is_24_7 |-> TRUE, is_24_7 |-> TRUE,
       required_hours_start |-> HHMM(9, 0), required_hours_end |-> HHMM(17, 0)],
      [has_is_24_7 |-> TRUE, is_24_7 |-> FALSE,
       required_hours_start |-> HHMM(22, 0), required_hours_end |-> HHMM(6, 0)],
      [has_is_24_7 |-> TRUE, is_24_7 |-> FALSE,
       required_hours_start |-> HHMM(9, 0), required_hours_end |-> HHMM(17, 0)],
      [has_is_24_7 |-> TRUE, is_24_7 |-> FALSE,
       required_hours_start |-> Text(<<"0", "9", "0", "0">>),
       required_hours_end |-> HHMM(17, 0)] }

\* QueueScheduler.__init__ followed by solve() entered
InitQueue ==
    \E G \in 1..MaxSessionGuards, P \in 1..MaxPosts, sc \in Scenarios,
       mcn \in MaxNightsChoices :
      \E unavail \in UnavailabilityChoices(G, sc.start) :
      \E configs \in [1..P -> PostConfigs] :
        /\ Construct(G, P, sc, mcn, unavail)
        /\ post_configs = configs
        /\ SolveEntry
        /\ NoApplication

\* The step of solve() to the next post of the slot, or to the first post
\* of the next slot after "assignments.extend(slot_assignments)".
NextPair ==
    IF post_i = Len(posts)
    THEN /\ assignments' = assignments \o slot_assignments
         /\ slot_assignments' = <<>>
         /\ slot_i' = slot_i + 1
         /\ post_i' = 1
    ELSE /\ assignments' = assignments
         /\ slot_assignments' = slot_assignments
         /\ slot_i' = slot_i
         /\ post_i' = post_i + 1

\* Variant: a post that is not required is recorded as unmet demand.
SkipPost_RecordsUnmet ==
    /\ last' = [NoSelection EXCEPT !.outcome = "skipped", !.post = posts[post_i],
                                   !.slot = slot_i, !.queues_before = guard_queues,
                                   !.states_before = guard_states]
    /\ NextPair
    /\ failed_slots' = Append(failed_slots, <<slot_i, posts[post_i]>>)
    /\ UNCHANGED <<config, pc, result, application, guard_queues, guard_states,
                   selected_penalties>>

\* "if self._is_post_required_at_time(post_config, slot["start"])" is false:
\* the iteration does nothing
SkipPost ==
    /\ last' = [NoSelection EXCEPT !.outcome = "skipped", !.post = posts[post_i],
                                   !.slot = slot_i, !.queues_before = guard_queues,
                                   !.states_before = guard_states]
    /\ NextPair
    /\ UNCHANGED <<config, pc, result, application, guard_queues, guard_states,
                   failed_slots, selected_penalties>>

\* Variant: the requirement is evaluated at the end of the slot.
QueueSolveStep_GatedAtEnd ==
    /\ pc = "solve"
    /\ slot_i <= Len(time_slots)
    /\ IF _is_post_required_at_time(post_configs[posts[post_i]],
                                    time_slots[slot_i].end).value
       THEN SolveStep
       ELSE SkipPost

\* One iteration of "for post_name in self.post_names" of QueueScheduler.solve()
QueueSolveStep ==
    /\ pc = "solve"
    /\ slot_i <= Len(time_slots)
    /\ IF _is_post_required_at_time(post_configs[posts[post_i]],
                                    time_slots[slot_i].start).value
       THEN SolveStep
       ELSE SkipPost

NextQueue == QueueSolveStep \/ SolveReturn

SpecQueue == InitQueue /\ [][NextQueue]_vars

\* solve() is a sequential loop run to completion: a step that can be taken
\* is taken.  The engines of this specification have few guards, the
\* default max_consecutive_nights, and no post with is_24_7 set to true.
LoopPostConfigs == { post_config \in PostConfigs : ~post_config.is_24_7 }
InitQueueFair ==
    \E G \in 1..MaxLoopGuards, P \in 1..MaxPosts, sc \in Scenarios :
      \E unavail \in UnavailabilityChoices(G, sc.start) :
      \E configs \in [1..P -> LoopPostConfigs] :
        /\ Construct(G, P, sc, 1, unavail)
        /\ post_configs = configs
        /\ SolveEntry
        /\ NoApplication

SpecQueueFair == InitQueueFair /\ [][NextQueue]_vars /\ WF_vars(NextQueue)

(* ---------------------------- slot generator -------------------------- *)
\* Inputs of _generate_time_slots applied on its own: the schedule start,
\* the schedule end that many hours (and minutes) later, the night window,
\* and the day and night shift lengths (1 to 24 hours, in minutes).
SlotStarts == {0, 90, 360, 1290, 1320}
SlotEndMinutes == {-30, 0, 30}
SlotNightRanges ==
    { TenPmToSixAm,
      [start_hour |-> 21, start_min |-> 30, end_hour |-> 5, end_min |-> 30],
      [start_hour |-> 8, start_min |-> 0, end_hour |-> 17, end_min |-> 30],
      [start_hour |-> 22, start_min |-> 0, end_hour |-> 22, end_min |-> 30],
      [start_hour |-> 0, start_min |-> 0, end_hour |-> 0, end_min |-> 0] }
ShiftLengths == {60, 90, 240, 480, 720, 1440}

InitSlots ==
    /\ NoEngine
    /\ \E start \in SlotStarts, hours \in 0..MaxHorizonHours,
          minutes \in SlotEndMinutes, night_range \in SlotNightRanges,
          day \in ShiftLengths, night \in ShiftLengths :
          call = [function |-> "_generate_time_slots",
                  schedule_start |-> start,
                  schedule_end |-> start + hours * 60 + minutes,
                  night_time_range |-> night_range,
                  day_shift_duration |-> day,
                  night_shift_duration |-> night]
    /\ returned = NoReturn

\* self._generate_time_slots()
Generate ==
    /\ call.function = "_generate_time_slots"
    /\ returned = NoReturn
    /\ returned' = [returned |-> TRUE,
                    value |-> _generate_time_slots(
                                 call.schedule_start, call.schedule_end,
                                 call.night_time_range, call.day_shift_duration,
                                 call.night_shift_duration)]
    /\ UNCHANGED <<engine, call>>

NextSlots == Generate

SpecSlots == InitSlots /\ [][NextSlots]_vars

(* --------------------------- queue orders ----------------------------- *)
\* A guard id and a post id the engine was not constructed with
UnknownGuard(guard_list) == Len(guard_list) + 1
UnknownPost(post_list) == Len(post_list) + 1

\* Every order of the guards
GuardPermutations(guard_list) ==
    { q \in [DOMAIN guard_list -> Range(guard_list)] :
        \A i, j \in DOMAIN guard_list : q[i] = q[j] => i = j }

\* Orders a caller may supply: every permutation of the guards; the input
\* order with a guard missing, with an unknown guard added, with a guard
\* replaced by an unknown one, and with a guard repeated; the empty order.
Orders(guard_list) ==
    GuardPermutations(guard_list) \cup
    { <<>>,
      Tail(guard_list),
      Append(guard_list, UnknownGuard(guard_list)),
      [guard_list EXCEPT ![1] = UnknownGuard(guard_list)],
      Append(guard_list, guard_list[1]),
      <<guard_list[1]>> \o guard_list,
      <<guard_list[Len(guard_list)]>> \o guard_list }

\* initial_queue_orders: None, or a dict giving one order to some posts
InitialQueueOrders(post_list, guard_list) ==
    { [none |-> TRUE, orders |-> <<>>] } \cup
    { [none |-> FALSE, orders |-> [p \in D |-> o]] :
        D \in SUBSET Range(post_list), o \in Orders(guard_list) }

NoError == [raised |-> FALSE]

\* The ValueError of a rejected order; the message names the missing
\* guards when there are some, and the unknown guards when there are some.
InvalidOrder(text, post, order, guard_list) ==
    [raised |-> TRUE, text |-> text, post |-> post,
     missing |-> Range(guard_list) \ Range(order),
     unknown |-> Range(order) \ Range(guard_list)]

\* set(custom_order) != set(self.guards)
OrderRejected(order, guard_list) == Range(order) # Range(guard_list)

\* _initialize_guard_queues(initial_queue_orders): "for post in self.posts",
\* from position k on, queues holding the posts before it
RECURSIVE InitializeFrom(_, _, _, _, _)
InitializeFrom(initial_queue_orders, post_list, guard_list, k, queues) ==
    IF k > Len(post_list) THEN [error |-> NoError, guard_queues |-> queues]
    ELSE LET post == post_list[k]
         IN  IF post \in DOMAIN initial_queue_orders.orders
             THEN LET custom_order == initial_queue_orders.orders[post]
                  IN  IF OrderRejected(custom_order, guard_list)
                      THEN [error |-> InvalidOrder("Invalid queue order", post,
                                                   custom_order, guard_list),
                            guard_queues |-> <<>>]
                      ELSE InitializeFrom(initial_queue_orders, post_list, guard_list,
                                          k + 1, Append(queues, custom_order))
             ELSE InitializeFrom(initial_queue_orders, post_list, guard_list,
                                 k + 1, Append(queues, guard_list))

\* _initialize_guard_queues(initial_queue_orders); None and the empty dict
\* are both false in "if initial_queue_orders:"
_initialize_guard_queues_from(initial_queue_orders, post_list, guard_list) ==
    IF initial_queue_orders.none \/ DOMAIN initial_queue_orders.orders = {}
    THEN [error |-> NoError,
          guard_queues |-> _initialize_guard_queues(post_list, guard_list)]
    ELSE InitializeFrom(initial_queue_orders, post_list, guard_list, 1, <<>>)

\* Before ShiftScheduler(..., initial_queue_orders=...) is constructed
\* with one post or with two
OrderPostCounts == {1, 2}

InitOrders ==
    \E G \in 1..MaxOrderGuards, P \in OrderPostCounts :
        /\ guards = [i \in 1..G |-> i]
        /\ posts = [i \in 1..P |-> i]
        /\ \E initial_queue_orders \in InitialQueueOrders(posts, guards) :
              call = [function |-> "__init__",
                      initial_queue_orders |-> initial_queue_orders]
        /\ returned = NoReturn
        /\ pc = "new"
        /\ post_configs = NoConfigs
        /\ unavailability = [g \in 1..G |-> <<>>]
        /\ schedule_start = 0
        /\ schedule_end = 0
        /\ day_shift_duration = 480
        /\ night_shift_duration = 480
        /\ night_time_range = TenPmToSixAm
        /\ max_consecutive_nights = 1
        /\ guard_queues = <<>>
        /\ guard_states = <<>>
        /\ time_slots = <<>>
        /\ assignments = <<>>
        /\ slot_assignments = <<>>
        /\ failed_slots = <<>>
        /\ slot_i = 1
        /\ post_i = 1
        /\ result = [none |-> TRUE, value |-> <<>>]
        /\ saved_state = NoState
        /\ reset_queue_orders = FALSE
        /\ session = 0
        /\ earlier = NoEarlier
        /\ selected_penalties = <<>>
        /\ last = NoSelection

\* what the queue operations leave alone
orders_frame == <<guards, posts, post_configs, unavailability, schedule_start,
                  schedule_end, day_shift_duration, night_shift_duration,
                  night_time_range, max_consecutive_nights, time_slots,
                  assignments, slot_assignments, failed_slots, slot_i, post_i,
                  result, saved_state, reset_queue_orders, earlier,
                  selected_penalties>>

\* __init__ without saved_state: the queues, then the fresh statistics;
\* a rejected order leaves no engine.
New ==
    /\ pc = "new"
    /\ \E r \in {_initialize_guard_queues_from(call.initial_queue_orders,
                                               posts, guards)} :
          IF r.error.raised
          THEN /\ pc' = "raised"
               /\ returned' = [returned |-> TRUE, value |-> r.error]
               /\ UNCHANGED <<guard_queues, guard_states, session>>
          ELSE /\ pc' = "idle"
               /\ returned' = [returned |-> TRUE, value |-> NoError]
               /\ guard_queues' = r.guard_queues
               /\ guard_states' = FreshStates(guards)
               /\ session' = 1
    /\ UNCHANGED <<orders_frame, last, call>>

\* set_queue_order(post, guard_order)
set_queue_order ==
    /\ pc = "idle"
    /\ \E post \in Range(posts) \cup {UnknownPost(posts)},
          guard_order \in Orders(guards) :
        /\ call' = [function |-> "set_queue_order", post |-> post,
                    guard_order |-> guard_order]
        /\ last' = [NoSelection EXCEPT !.queues_before = guard_queues]
        /\ IF post \notin Range(posts)
           THEN /\ returned' = [returned |-> TRUE,
                                value |-> [raised |-> TRUE, text |-> "Unknown post",
                                           post |-> post, missing |-> {},
                                           unknown |-> {}]]
                /\ UNCHANGED guard_queues
           ELSE IF OrderRejected(guard_order, guards)
           THEN /\ returned' = [returned |-> TRUE,
                                value |-> InvalidOrder("Invalid guard order", post,
                                                       guard_order, guards)]
                /\ UNCHANGED guard_queues
           ELSE /\ returned' = [returned |-> TRUE, value |-> NoError]
                /\ guard_queues' = [guard_queues EXCEPT ![post] = guard_order]
    /\ UNCHANGED <<orders_frame, guard_states, session, pc>>

\* rotate_queue_to_guard(post, guard): the two checks, then the loop is entered
RotateCall ==
    /\ pc = "idle"
    /\ \E post \in Range(posts) \cup {UnknownPost(posts)},
          guard \in Range(guards) \cup {UnknownGuard(guards)} :
        /\ call' = [function |-> "rotate_queue_to_guard", post |-> post,
                    guard |-> guard]
        /\ last' = [NoSelection EXCEPT !.queues_before = guard_queues]
        /\ IF post \notin Range(posts)
           THEN /\ returned' = [returned |-> TRUE,
                                value |-> [raised |-> TRUE, text |-> "Unknown post"]]
                /\ pc' = "idle"
           ELSE IF guard \notin Range(guards)
           THEN /\ returned' = [returned |-> TRUE,
                                value |-> [raised |-> TRUE, text |-> "Unknown guard"]]
                /\ pc' = "idle"
           ELSE /\ returned' = NoReturn
                /\ pc' = "rotating"
    /\ UNCHANGED <<orders_frame, guard_queues, guard_states, session>>

\* Variant: the loop exchanges the two guards at the front.
RotateStep_SwapFront ==
    /\ pc = "rotating"
    /\ guard_queues[call.post][1] # call.guard
    /\ guard_queues' =
          [guard_queues EXCEPT ![call.post] =
              [@ EXCEPT ![1] = guard_queues[call.post][2],
                        ![2] = guard_queues[call.post][1]]]
    /\ UNCHANGED <<orders_frame, guard_states, session, pc, last, application>>

\* "while queue[0] != guard: queue.rotate(-1)": one iteration
RotateStep ==
    /\ pc = "rotating"
    /\ guard_queues[call.post][1] # call.guard
    /\ guard_queues' = [guard_queues EXCEPT ![call.post] = rotate(@)]
    /\ UNCHANGED <<orders_frame, guard_states, session, pc, last, application>>

\* the loop condition is false: rotate_queue_to_guard returns
RotateReturn ==
    /\ pc = "rotating"
    /\ guard_queues[call.post][1] = call.guard
    /\ pc' = "idle"
    /\ returned' = [returned |-> TRUE, value |-> NoError]
    /\ UNCHANGED <<orders_frame, guard_queues, guard_states, session, last, call>>

NextOrders == New \/ set_queue_order \/ RotateCall \/ RotateStep \/ RotateReturn

SpecOrders == InitOrders /\ [][NextOrders]_vars

\* The loop of rotate_queue_to_guard keeps running while it can.
SpecOrdersFair == SpecOrders /\ WF_vars(RotateStep \/ RotateReturn)

(* ---------------------------- create_schedule ------------------------- *)
\* The handler of POST /schedule.  A request that reaches it has passed
\* ScheduleRequest: guards and posts are lists (List[str]) of unique names,
\* the two timestamps parse, max_consecutive_nights is at least 1.  A Python
\* value is written with its type where the code depends on the type; shift
\* lengths are in minutes, as everywhere in this module.
ListOf(items) == [type |-> "list", items |-> items]

\* "posts.keys()": a dict has keys; a list has no attribute 'keys'
keys(value) ==
    IF value.type = "dict"
    THEN [raised |-> FALSE, error |-> "", value |-> value.items]
    ELSE [raised |-> TRUE, error |-> "AttributeError", value |-> <<>>]

\* QueueScheduler(...), up to the statement that raises, or the constructed
\* engine: a queue per post name, fresh statistics, the time slots; start and
\* end are schedule_start_datetime and schedule_end_datetime
QueueSchedulerNew(start, end, guard_list, posts_value, unavail, lengths, night_range, max_nights) ==
    LET post_names == keys(posts_value)
    IN  IF post_names.raised
        THEN [raised |-> TRUE, error |-> post_names.error]
        ELSE [raised |-> FALSE, error |-> "",
              guards |-> guard_list,
              posts |-> posts_value.configs,
              post_names |-> post_names.value,
              unavailability |-> unavail,
              max_consecutive_nights |-> max_nights,
              guard_queues |-> _initialize_guard_queues(post_names.value, guard_list),
              guard_states |-> FreshStates(guard_list),
              time_slots |-> _generate_time_slots(
                                 fromisoformat(start), fromisoformat(end),
                                 night_range, lengths.day_shift_hours,
                                 lengths.night_shift_hours),
              assignments |-> <<>>]

\* The body of "if guard: ... else: ..." for the selection r
AfterSelection(scheduler, post_name, slot, r) ==
    IF r.guard = None
    THEN [scheduler EXCEPT !.guard_queues[post_name] = r.queue]
    ELSE [scheduler EXCEPT
            !.guard_queues[post_name] = r.queue,
            !.guard_states = _assign_shift(@, r.guard, slot),
            !.assignments =
                Append(@, [guard_id |-> r.guard, post_id |-> post_name,
                           shift_start_time |-> isoformat(slot.start),
                           shift_end_time |-> isoformat(slot.end)])]

\* One iteration of "for post_name in self.post_names"
AfterPair(scheduler, post_name, slot) ==
    IF _is_post_required_at_time(scheduler.posts[post_name], slot.start).value
    THEN AfterSelection(scheduler, post_name, slot,
                        _find_best_guard(scheduler.guard_queues[post_name],
                                         scheduler.unavailability,
                                         scheduler.guard_states,
                                         scheduler.max_consecutive_nights,
                                         scheduler.guards, slot))
    ELSE scheduler

\* scheduler.solve() run to its end from the pair (i, k) of its two loops
RECURSIVE QueueScheduler_solve(_, _, _)
QueueScheduler_solve(scheduler, i, k) ==
    IF i > Len(scheduler.time_slots) THEN scheduler
    ELSE QueueScheduler_solve(
             AfterPair(scheduler, scheduler.post_names[k], scheduler.time_slots[i]),
             IF k = Len(scheduler.post_names) THEN i + 1 ELSE i,
             IF k = Len(scheduler.post_names) THEN 1 ELSE k + 1)

\* ScheduleResponse(success=..., assignments=..., error=...); an error of ""
\* and an assignment list of <<>> stand for None
ScheduleResponse(success, assignment_list, error) ==
    [success |-> success, assignments |-> assignment_list, error |-> error]

\* Horizons of a request, in hours from its start: the end before the
\* start, at the start, and after it
RequestHours == {-8, 0, 8, 24}

\* request.unavailability: windows for the guards of the request, and in
\* some requests for a name that is no guard of the request
RequestUnavailability(G, start) ==
    UnavailabilityChoices(G, start)
    \cup { [g \in 1..(G + 1) |-> IF g = G + 1 THEN w ELSE u[g]] :
            u \in UnavailabilityChoices(G, start), w \in WindowLists(start) }

InitRequest ==
    /\ NoEngine
    /\ \E G \in 1..MaxSessionGuards, P \in 1..MaxPosts, sc \in Scenarios,
          mcn \in MaxNightsChoices, hours \in RequestHours :
        \E unavail \in RequestUnavailability(G, sc.start) :
          call = [function |-> "create_schedule",
                  request |->
                     [schedule_start_datetime |-> isoformat(sc.start),
                      schedule_end_datetime |-> isoformat(sc.start + hours * 60),
                      guards |-> [i \in 1..G |-> i],
                      posts |-> ListOf([i \in 1..P |-> i]),
                      unavailability |-> unavail,
                      shift_lengths |-> [day_shift_hours |-> sc.day,
                                         night_shift_hours |-> sc.night],
                      night_time_range |-> sc.range,
                      max_consecutive_nights |-> mcn]]
    /\ returned = NoReturn

\* "assignments = scheduler.solve()" and what follows it
Solved(solved) ==
    IF solved = <<>>
    THEN ScheduleResponse(FALSE, <<>>, "Could not generate a complete schedule")
    ELSE ScheduleResponse(TRUE, solved, "")

\* "scheduler = QueueScheduler(...)" and what follows it; an exception of
\* the constructor ends in "except Exception"
Constructed(scheduler) ==
    IF scheduler.raised
    THEN ScheduleResponse(FALSE, <<>>, "Unexpected error generating schedule")
    ELSE Solved(QueueScheduler_solve(scheduler, 1, 1).assignments)

\* "if guard in request.guards": windows of the request's guards only
unavailability_dict(request) ==
    [guard \in DOMAIN request.unavailability \cap Range(request.guards)
        |-> request.unavailability[guard]]

\* async def create_schedule(request): the whole handler, its "except"
\* clauses included
create_schedule ==
    /\ call.function = "create_schedule"
    /\ returned = NoReturn
    /\ \E request \in {call.request} :
          returned' =
            [returned |-> TRUE,
             value |->
               IF fromisoformat(request.schedule_end_datetime)
                     <= fromisoformat(request.schedule_start_datetime)
               THEN ScheduleResponse(FALSE, <<>>,
                                     "Schedule end time must be after start time")
               ELSE Constructed(
                       QueueSchedulerNew(request.schedule_start_datetime,
                                         request.schedule_end_datetime,
                                         request.guards, request.posts,
                                         unavailability_dict(request),
                                         request.shift_lengths,
                                         request.night_time_range,
                                         request.max_consecutive_nights))]
    /\ UNCHANGED <<engine, call>>

NextRequest == create_schedule

SpecRequest == InitRequest /\ [][NextRequest]_vars

(* ============================ properties ============================== *)
\* The slot and the queue the latest selection worked on.
LastSlot == time_slots[last.slot]
LastQueueBefore == last.queues_before[last.post]
\* overlap = NOT (slotEnd <= unavailStart OR slotStart >= unavailEnd)
Overlaps(slot_start, slot_end, unavail_start, unavail_end) ==
    ~(slot_end <= unavail_start \/ slot_start >= unavail_end)
AvailableFor(guard, slot) ==
    \A w \in DOMAIN unavailability[guard] :
        ~Overlaps(slot.start, slot.end,
                  unavailability[guard][w][1], unavailability[guard][w][2])
ProducedAssignments == assignments \o slot_assignments

(* C1: for an engine constructed with the default queue order, after every
   selection (successful or failed) every post's queue holds every input
   guard exactly once: guards are only reordered. *)
C1_QueueIsPermutation ==
    \A p \in Range(posts) :
        /\ Len(guard_queues[p]) = Len(guards)
        /\ \A g \in Range(guards) :
              Cardinality({i \in DOMAIN guard_queues[p] : guard_queues[p][i] = g}) = 1

C1_Witness ==
    /\ last.outcome = "unmet"
    /\ assignments # <<>>
    /\ \E p \in Range(posts) : guard_queues[p] # guards

(* C2: no assignment produced by solve() gives a slot to a guard who has an
   unavailability window overlapping [slot.start, slot.end), even when that
   guard is at the front of the post's queue. *)
C2_NoAssignmentInsideUnavailability ==
    \A i \in DOMAIN ProducedAssignments :
        LET a == ProducedAssignments[i]
            slot_start == fromisoformat(a.shift_start_time)
            slot_end == fromisoformat(a.shift_end_time)
        IN  \A w \in DOMAIN unavailability[a.guard_id] :
                LET unavail_start == unavailability[a.guard_id][w][1]
                    unavail_end == unavailability[a.guard_id][w][2]
                IN  ~Overlaps(slot_start, slot_end, unavail_start, unavail_end)

C2_Witness ==
    /\ last.outcome = "assigned"
    /\ ~AvailableFor(Head(LastQueueBefore), LastSlot)
    /\ last.guard # Head(LastQueueBefore)

(* C3, as claimed: after every successful selection the selected guard is at
   the tail of the post's queue and all other guards are in the same
   front-to-back order they had immediately before the selection. *)
Without(queue, guard) == SelectSeq(queue, LAMBDA g : g # guard)
PositionIn(queue, guard) == CHOOSE i \in DOMAIN queue : queue[i] = guard
C3_OthersKeepFrontToBackOrder ==
    last.outcome = "assigned" =>
        /\ guard_queues[last.post][Len(guards)] = last.guard
        /\ Without(guard_queues[last.post], last.guard)
              = Without(LastQueueBefore, last.guard)

(* C3, amended: after every successful selection the selected guard is at
   the tail of the post's queue and the queue is a cyclic rotation of its
   order immediately before the selection: the guards that were behind the
   selected guard come first in their order, then the guards that were
   ahead of it in their order, then the selected guard. *)
C3_SelectedToTailByRotation ==
    last.outcome = "assigned" =>
        \E i \in {PositionIn(LastQueueBefore, last.guard)} :
            guard_queues[last.post]
              = SubSeq(LastQueueBefore, i + 1, Len(guards))
                \o SubSeq(LastQueueBefore, 1, i - 1)
                \o <<last.guard>>

C3_Witness ==
    /\ last.outcome = "assigned"
    /\ PositionIn(LastQueueBefore, last.guard) > 1
    /\ PositionIn(LastQueueBefore, last.guard) < Len(guards)
    /\ ~AvailableFor(Head(LastQueueBefore), LastSlot)

(* C4: when a selection finds no guard for a (post, slot) pair, the post's
   queue order after the call is identical to its order before the call and
   no guard's statistics change. *)
C4_FailureLeavesQueueAndStatistics ==
    last.outcome = "unmet" =>
        /\ guard_queues[last.post] = LastQueueBefore
        /\ guard_states = last.states_before

C4_Witness ==
    /\ last.outcome = "unmet"
    /\ Len(guards) > 1
    /\ Head(guard_queues[last.post]) # guards[1]
    /\ \E g \in Range(guards) : guard_states[g].total_shifts > 0

(* C5: a selection is reported as unmet demand if and only if every guard of
   the queue is unavailable for the slot; unavailable guards count toward
   the number examined, and the scan does not stop at the lookahead cutoff
   while no candidate has been found and unexamined guards remain. *)
C5_UnmetIffAllUnavailable ==
    last.outcome # "none" =>
        /\ last.outcome = "unmet" <=>
              \A g \in Range(guards) : ~AvailableFor(g, LastSlot)
        /\ last.outcome = "unmet" =>
              /\ last.checked_guards = Len(guards)
              /\ failed_slots # <<>>
              /\ failed_slots[Len(failed_slots)] = <<last.slot, last.post>>
        /\ last.outcome = "assigned" =>
              \/ failed_slots = <<>>
              \/ failed_slots[Len(failed_slots)] # <<last.slot, last.post>>
        /\ last.checked_guards < Len(guards) => last.guard # None

C5_Witness ==
    /\ last.outcome = "assigned"
    /\ last.checked_guards > 5
    /\ \A i \in 1..5 : ~AvailableFor(LastQueueBefore[i], LastSlot)

(* C6: with the queue g1..gG read from the front, a selection examines
   g1, g2, ... in order and stops after gk, k the least index such that gk
   is available with penalty 0, or k >= min(G, 5) and some examined guard
   is available, or k = G; it returns the available guard of least penalty
   among g1..gk, the one nearest the front when penalties tie. *)
PenaltyBefore(i) ==
    _calculate_penalty(last.states_before, max_consecutive_nights, guards,
                       LastQueueBefore[i], LastSlot)
AvailableAt(i) == AvailableFor(LastQueueBefore[i], LastSlot)
StopsAfter(k, available, penalty) ==
    \/ available[k] /\ penalty[k] = 0
    \/ k >= Min(Len(guards), 5) /\ \E j \in 1..k : available[j]
    \/ k = Len(guards)
ExpectedStop(available, penalty) ==
    CHOOSE k \in 1..Len(guards) :
        /\ StopsAfter(k, available, penalty)
        /\ \A j \in 1..(k - 1) : ~StopsAfter(j, available, penalty)
ExpectedChoice(k, available, penalty) ==
    IF \A j \in 1..k : ~available[j] THEN None
    ELSE LastQueueBefore[
            CHOOSE j \in 1..k :
                /\ available[j]
                /\ \A i \in 1..k : available[i] =>
                      \/ penalty[j] < penalty[i]
                      \/ penalty[j] = penalty[i] /\ j <= i]
C6_ScanStopsAndPicksLeastPenalty ==
    last.outcome # "none" =>
        \E available \in {[i \in 1..Len(guards) |-> AvailableAt(i)]} :
        \E penalty \in {[i \in 1..Len(guards) |-> PenaltyBefore(i)]} :
        \E k \in {ExpectedStop(available, penalty)} :
            /\ last.checked_guards = k
            /\ last.guard = ExpectedChoice(k, available, penalty)

\* the cutoff ends the scan of a six-guard queue with only penalised
\* candidates, and the winner is neither the first guard nor alone at its penalty
C6_Witness ==
    /\ last.outcome = "assigned"
    /\ Len(guards) > 5
    /\ last.checked_guards = 5
    /\ last.penalty > 0
    /\ last.guard # Head(LastQueueBefore)
    /\ \E i \in 1..5 :
          /\ LastQueueBefore[i] # last.guard
          /\ AvailableAt(i)
          /\ PenaltyBefore(i) = last.penalty

(* C7: the fairness penalty of a guard for a slot is 100 if the slot is a
   night slot and consecutive_nights >= max_consecutive_nights (else 0),
   plus 5 * max(0, total_shifts - average total_shifts over all guards); it
   is never negative and is 0 exactly when neither term applies.  Stated on
   the penalty multiplied by the number of guards n: the average is
   total / n, so n * 5 * max(0, shifts - total / n) = 5 * max(0, n * shifts
   - total). *)
NightTermApplies(g, is_night) ==
    is_night /\ guard_states[g].consecutive_nights >= max_consecutive_nights
\* n * (total_shifts of g) - (total_shifts of all guards)
ExcessShifts(g) ==
    Len(guards) * guard_states[g].total_shifts
    - SumShifts(guard_states, guards, Len(guards))
C7_PenaltyFormula ==
    \A g \in Range(guards) : \A is_night \in BOOLEAN :
        \E penalty \in {_calculate_penalty(guard_states, max_consecutive_nights,
                                           guards, g, [is_night |-> is_night])} :
        \E excess \in {ExcessShifts(g)} :
            /\ penalty = (IF NightTermApplies(g, is_night) THEN 100 * Len(guards) ELSE 0)
                         + 5 * (IF excess > 0 THEN excess ELSE 0)
            /\ penalty >= 0
            /\ penalty = 0 <=> ~NightTermApplies(g, is_night) /\ excess <= 0

C7_Witness ==
    \E g \in Range(guards) :
        /\ slot_i <= Len(time_slots)
        /\ NightTermApplies(g, time_slots[slot_i].is_night)
        /\ guard_states[g].consecutive_nights = max_consecutive_nights
        /\ ExcessShifts(g) > 0
        /\ pc = "solve"

(* C8, as claimed: with one post, every guard available for every slot and
   every selection made at penalty 0, after N consecutive successful
   selections each of the G guards has been selected floor(N/G) or
   ceil(N/G) times, for every N. *)
TimesSelected(g) ==
    Cardinality({i \in DOMAIN ProducedAssignments :
                    ProducedAssignments[i].guard_id = g})
ZeroPenaltyRun ==
    /\ Len(posts) = 1
    /\ \A g \in Range(guards) : \A i \in DOMAIN time_slots :
          AvailableFor(g, time_slots[i])
    /\ failed_slots = <<>>
    /\ \A i \in DOMAIN selected_penalties : selected_penalties[i] = 0
EvenlySelected ==
    \A g \in Range(guards) :
        LET N == Len(ProducedAssignments)
            G == Len(guards)
        IN  \/ TimesSelected(g) = N \div G
            \/ TimesSelected(g) = (N + G - 1) \div G
C8_RotationFairness == ZeroPenaltyRun => EvenlySelected

(* C8, amended: the same, for an engine constructed without a saved state
   (every guard's statistics start at zero). *)
C8_RotationFairnessOfFreshEngine ==
    (~saved_state.present /\ ZeroPenaltyRun) => EvenlySelected

\* a fresh engine, more selections than guards, the latest one passing over
\* a penalised guard at the front for a later guard of penalty 0
C8_Witness ==
    /\ ~saved_state.present
    /\ ZeroPenaltyRun
    /\ Len(guards) >= 3
    /\ Len(ProducedAssignments) > Len(guards)
    /\ last.outcome = "assigned"
    /\ last.guard # Head(LastQueueBefore)

(* C9: recording an assignment sets the guard's last_shift_end to the slot's
   end, adds 1 to total_shifts, adds the slot's duration to total_hours, and
   sets consecutive_nights to its old value + 1 for a night slot and to
   exactly 0 otherwise, whatever the prior streak. *)
C9_AssignmentUpdatesStatistics ==
    last.outcome = "assigned" =>
        LET old == last.states_before[last.guard]
            new == guard_states[last.guard]
        IN  /\ new.last_shift_end = LastSlot.end
            /\ new.total_shifts = old.total_shifts + 1
            /\ new.total_hours = old.total_hours + (LastSlot.end - LastSlot.start)
            /\ LastSlot.is_night => new.consecutive_nights = old.consecutive_nights + 1
            /\ ~LastSlot.is_night => new.consecutive_nights = 0

C9_Witness ==
    /\ last.outcome = "assigned"
    /\ ~LastSlot.is_night
    /\ last.states_before[last.guard].consecutive_nights >= 2
    /\ guard_states[last.guard].consecutive_nights = 0

(* C10: during solve() guard statistics and queue orders change only as the
   effect of a successful assignment: a step changes the statistics of the
   assigned guard only and the queue of the post being filled only. *)
C10_OnlyAssignmentsMutate ==
    [][ (guard_states' # guard_states \/ guard_queues' # guard_queues) =>
          /\ last'.outcome = "assigned"
          /\ last'.slot = slot_i /\ last'.post = posts[post_i]
          /\ \A g \in Range(guards) :
                g # last'.guard => guard_states'[g] = guard_states[g]
          /\ \A p \in Range(posts) :
                p # last'.post => guard_queues'[p] = guard_queues[p]
      ]_vars

C10_Witness ==
    /\ last.outcome = "assigned"
    /\ Len(posts) > 1 /\ Len(guards) > 1
    /\ guard_states[last.guard] # last.states_before[last.guard]
    /\ guard_queues[last.post] # LastQueueBefore
    /\ \E p \in Range(posts) : guard_queues[p] # guard_queues[last.post]
    /\ \E g \in Range(guards) : g # last.guard /\ guard_states[g].total_shifts > 0

(* C11: the night classifier follows the hour/minute rule: when start_hour >
   end_hour an instant is night iff hour > start_hour, or hour < end_hour, or
   (hour = start_hour and minute >= start_minute), or (hour = end_hour and
   minute < end_minute); when start_hour <= end_hour it is night iff
   start_hour < hour < end_hour or one of the same two boundary-hour tests
   holds.  With the window 22:00-06:00: 23:00 and 05:59 are night, 06:00 and
   12:00 are day. *)
ClassifiedHour == (call.shift_start \div 60) % 24
ClassifiedMinute == call.shift_start % 60
BoundaryHourTests(r, hour, minute) ==
    \/ (hour = r.start_hour /\ minute >= r.start_min)
    \/ (hour = r.end_hour /\ minute < r.end_min)
HourMinuteRule(r, hour, minute) ==
    IF r.start_hour > r.end_hour
    THEN hour > r.start_hour \/ hour < r.end_hour \/ BoundaryHourTests(r, hour, minute)
    ELSE (r.start_hour < hour /\ hour < r.end_hour) \/ BoundaryHourTests(r, hour, minute)
C11_ClassifierFollowsHourMinuteRule ==
    returned.returned =>
        /\ returned.value
              <=> HourMinuteRule(call.night_time_range, ClassifiedHour, ClassifiedMinute)
        /\ call.night_time_range = TenPmToSixAm =>
              /\ (ClassifiedHour = 23 /\ ClassifiedMinute = 0) => returned.value
              /\ (ClassifiedHour = 5 /\ ClassifiedMinute = 59) => returned.value
              /\ (ClassifiedHour = 6 /\ ClassifiedMinute = 0) => ~returned.value
              /\ (ClassifiedHour = 12 /\ ClassifiedMinute = 0) => ~returned.value

\* 06:00 of the second day under the window 22:00-06:00 is classified day
C11_Witness ==
    /\ returned.returned
    /\ call.night_time_range = TenPmToSixAm
    /\ call.shift_start = 1440 + 6 * 60
    /\ ~returned.value

(* C12: for every night-window configuration the classifier is inclusive at
   the window start and exclusive at the window end: an instant is night if
   and only if its minutes since midnight lie in the half-open interval
   [start, end), wrapping past midnight when start > end; the instant exactly
   at the configured end is never night when start differs from end. *)
WindowStart(r) == r.start_hour * 60 + r.start_min
WindowEnd(r) == r.end_hour * 60 + r.end_min
MinutesSinceMidnight(t) == t % 1440
InHalfOpenWindow(r, minutes) ==
    IF WindowStart(r) > WindowEnd(r)
    THEN minutes >= WindowStart(r) \/ minutes < WindowEnd(r)
    ELSE WindowStart(r) <= minutes /\ minutes < WindowEnd(r)
C12_NightIsHalfOpenWindow ==
    returned.returned =>
        /\ returned.value
              <=> InHalfOpenWindow(call.night_time_range,
                                   MinutesSinceMidnight(call.shift_start))
        /\ ( /\ WindowStart(call.night_time_range) # WindowEnd(call.night_time_range)
             /\ MinutesSinceMidnight(call.shift_start) = WindowEnd(call.night_time_range) )
           => ~returned.value

\* The same statement for the windows whose two hours differ.
C12_HalfOpenWhenHoursDiffer ==
    (returned.returned /\ call.night_time_range.start_hour # call.night_time_range.end_hour)
        => C12_NightIsHalfOpenWindow

(* C13: the post requirement evaluator returns true for an always-required
   post; for a bounded-hours post with bounds s and e in minutes since
   midnight it returns (minutes >= s or minutes < e) when s > e and
   (s <= minutes < e) otherwise; when a bound is missing or cannot be parsed
   it returns false without raising. *)
AlwaysRequired(post_config) == post_config.has_is_24_7 => post_config.is_24_7
RequiredWithin(s, e, minutes) ==
    IF s > e THEN minutes >= s \/ minutes < e ELSE s <= minutes /\ minutes < e
C13_PostRequirementEvaluator ==
    returned.returned =>
        /\ ~returned.raised
        /\ AlwaysRequired(call.post_config) => returned.value
        /\ ( /\ ~AlwaysRequired(call.post_config)
             /\ call.meant.start.kind = "time"
             /\ call.meant.end.kind = "time" )
           => ( returned.value
                  <=> RequiredWithin(call.meant.start.minutes, call.meant.end.minutes,
                                     MinutesSinceMidnight(call.time)) )
        /\ ( /\ ~AlwaysRequired(call.post_config)
             /\ \/ call.meant.start.kind # "time"
                \/ call.meant.end.kind # "time" )
           => ~returned.value

\* a post required 22:00-06:00 is required at 05:59 of the second day
C13_Witness ==
    /\ returned.returned
    /\ ~AlwaysRequired(call.post_config)
    /\ call.meant.start = [kind |-> "time", minutes |-> 1320]
    /\ call.meant.end = [kind |-> "time", minutes |-> 360]
    /\ call.time = 1440 + 359
    /\ returned.value

\* a post with a bound that is no "HH:MM" is not required, and nothing is raised
C13_WitnessMalformed ==
    /\ returned.returned
    /\ ~AlwaysRequired(call.post_config)
    /\ call.meant.start.kind = "time"
    /\ call.meant.end.kind = "malformed"
    /\ ~returned.value /\ ~returned.raised

(* C14: for positive day and night shift lengths, slot generation produces a
   finite sequence in which the first slot starts at the schedule start,
   every later slot starts exactly where the previous slot ends (strictly
   increasing, no overlap, no gap), every slot start is before the schedule
   end, each slot's duration is the night length if its start is classified
   night and the day length otherwise, and only the last slot's end may
   exceed the schedule end. *)
ClassifiedNight(r, t) == HourMinuteRule(r, (t \div 60) % 24, t % 60)
C14_SlotsTileTheHorizon ==
    (returned.returned /\ call.function = "_generate_time_slots") =>
        \E slots \in {returned.value} :
            /\ slots # <<>> => slots[1].start = call.schedule_start
            /\ \A i \in 2..Len(slots) :
                  /\ slots[i].start = slots[i - 1].end
                  /\ slots[i].start > slots[i - 1].start
            /\ \A i \in DOMAIN slots :
                  /\ slots[i].start < call.schedule_end
                  /\ slots[i].is_night
                        <=> ClassifiedNight(call.night_time_range, slots[i].start)
                  /\ slots[i].end - slots[i].start
                        = IF ClassifiedNight(call.night_time_range, slots[i].start)
                          THEN call.night_shift_duration
                          ELSE call.day_shift_duration
                  /\ slots[i].duration_hours = slots[i].end - slots[i].start
                  /\ i < Len(slots) => slots[i].end <= call.schedule_end

\* night and day slots of different lengths, the last one ending after the
\* schedule end
C14_Witness ==
    /\ returned.returned
    /\ call.function = "_generate_time_slots"
    /\ call.day_shift_duration # call.night_shift_duration
    /\ Len(returned.value) >= 4
    /\ \E i, j \in DOMAIN returned.value :
          returned.value[i].is_night /\ ~returned.value[j].is_night
    /\ returned.value[Len(returned.value)].end > call.schedule_end

(* C15: solve() terminates after processing every generated slot in
   chronological order and, within each slot, every post in the
   caller-supplied order; each required (slot, post) pair yields exactly one
   outcome, either one assignment or one unmet-demand record, so the
   returned assignments are ordered by slot start and then by post order and
   the number of assignments plus unmet records equals the number of
   required pairs. *)
PostRequiredAt(k, i) ==
    _is_post_required_at_time(post_configs[posts[k]], time_slots[i].start).value
\* the pair (slot i, k-th post) lies before the pair solve() is at
Processed(i, k) == i < slot_i \/ (i = slot_i /\ k < post_i)
AssignmentsFor(i, k) ==
    Cardinality({j \in DOMAIN ProducedAssignments :
                    /\ ProducedAssignments[j].shift_start_time
                          = isoformat(time_slots[i].start)
                    /\ ProducedAssignments[j].shift_end_time
                          = isoformat(time_slots[i].end)
                    /\ ProducedAssignments[j].post_id = posts[k]})
UnmetFor(i, k) ==
    Cardinality({j \in DOMAIN failed_slots : failed_slots[j] = <<i, posts[k]>>})
RequiredPairs ==
    {<<i, k>> \in (DOMAIN time_slots) \X (DOMAIN posts) : PostRequiredAt(k, i)}
OneOutcomePerRequiredPair ==
    \A i \in DOMAIN time_slots : \A k \in DOMAIN posts :
        AssignmentsFor(i, k) + UnmetFor(i, k)
            = IF Processed(i, k) /\ PostRequiredAt(k, i) THEN 1 ELSE 0
OrderedBySlotThenPost(list) ==
    \A a, b \in DOMAIN list :
        a < b =>
            \/ fromisoformat(list[a].shift_start_time)
                  < fromisoformat(list[b].shift_start_time)
            \/ /\ list[a].shift_start_time = list[b].shift_start_time
               /\ PositionIn(posts, list[a].post_id) < PositionIn(posts, list[b].post_id)
SolveOutcome ==
    /\ OneOutcomePerRequiredPair
    /\ OrderedBySlotThenPost(ProducedAssignments)
    /\ \A i \in 2..Len(time_slots) : time_slots[i - 1].start < time_slots[i].start
    /\ pc = "done" =>
          /\ slot_i = Len(time_slots) + 1 /\ post_i = 1
          /\ result.value = assignments
          /\ Len(assignments) + Len(failed_slots) = Cardinality(RequiredPairs)
\* a step of the loop handles the pair it is at and moves to the next pair
InLoopOrder ==
    (pc = "solve" /\ slot_i <= Len(time_slots)) =>
        /\ last'.slot = slot_i
        /\ last'.post = posts[post_i]
        /\ <<slot_i', post_i'>> = IF post_i = Len(posts) THEN <<slot_i + 1, 1>>
                                  ELSE <<slot_i, post_i + 1>>
C15_SolveProcessesEveryPairOnce ==
    /\ <>(pc = "done")
    /\ []SolveOutcome
    /\ [][InLoopOrder]_vars

\* solve() returned after assignments, unmet pairs and pairs not required,
\* over two posts
C15_Witness ==
    /\ pc = "done"
    /\ Len(posts) = 2
    /\ assignments # <<>>
    /\ failed_slots # <<>>
    /\ Cardinality(RequiredPairs) < Len(time_slots) * Len(posts)
    /\ \E i \in DOMAIN time_slots : PostRequiredAt(1, i) /\ PostRequiredAt(2, i)

(* C16: solve() returns the failure signal (None) if and only if no
   assignment at all was produced over the whole horizon; when some
   (slot, post) pairs are unmet but at least one assignment exists, the run
   continues past each unmet pair and returns the non-empty assignment
   list. *)
\* the successful selections of the run, counted by the shifts recorded
NoShiftRecorded == \A g \in Range(guards) : guard_states[g].total_shifts = 0
C16_NoneIffNothingAssigned ==
    pc = "done" =>
        /\ result.none <=> (selected_penalties = <<>> /\ NoShiftRecorded)
        /\ ~result.none =>
              /\ result.value # <<>>
              /\ Len(result.value) = Len(selected_penalties)
        /\ failed_slots # <<>> =>
              /\ OneOutcomePerRequiredPair
              /\ slot_i = Len(time_slots) + 1

\* an unmet pair, then an assignment for a later slot, and a list returned
C16_Witness ==
    /\ pc = "done"
    /\ ~result.none
    /\ \E f \in DOMAIN failed_slots : \E a \in DOMAIN result.value :
          fromisoformat(result.value[a].shift_start_time)
              > time_slots[failed_slots[f][1]].start

\* no pair of the horizon is required, and None is returned
C16_WitnessNone ==
    /\ pc = "done"
    /\ result.none
    /\ time_slots # <<>>

(* C17: end to end: with guards [A, B, C] (here 1, 2, 3), one
   always-required post, 8h day and 8h night shifts, night window
   22:00-06:00, no unavailability, max_consecutive_nights 1 and a 24-hour
   horizon starting at 2024-01-01T00:00 (here instant 0), solve() produces
   exactly three slots (00-08 night, 08-16 day, 16-24 day) and the
   assignments A, B, C in that order; afterwards consecutive_nights is 1 for
   A and 0 for B and C, and total_shifts is 1 for each guard. *)
EndToEndScenario ==
    /\ session = 1
    /\ guards = <<1, 2, 3>>
    /\ posts = <<1>>
    /\ schedule_start = 0
    /\ schedule_end = 24 * 60
    /\ day_shift_duration = 8 * 60
    /\ night_shift_duration = 8 * 60
    /\ night_time_range = TenPmToSixAm
    /\ max_consecutive_nights = 1
    /\ \A g \in 1..3 : unavailability[g] = <<>>
Shift(guard, from_hour, to_hour) ==
    [guard_id |-> guard, post_id |-> 1,
     shift_start_time |-> [day |-> from_hour \div 24, hour |-> from_hour % 24, minute |-> 0],
     shift_end_time |-> [day |-> to_hour \div 24, hour |-> to_hour % 24, minute |-> 0]]
C17_EndToEndScenario ==
    EndToEndScenario =>
        /\ Len(time_slots) = 3
        /\ \A i \in 1..3 :
              /\ time_slots[i].start = (i - 1) * 480
              /\ time_slots[i].end = i * 480
              /\ time_slots[i].is_night <=> (i = 1)
        /\ pc = "done" =>
              /\ ~result.none
              /\ result.value = <<Shift(1, 0, 8), Shift(2, 8, 16), Shift(3, 16, 24)>>
              /\ failed_slots = <<>>
              /\ guard_states[1].consecutive_nights = 1
              /\ guard_states[2].consecutive_nights = 0
              /\ guard_states[3].consecutive_nights = 0
              /\ \A g \in 1..3 : guard_states[g].total_shifts = 1

C17_Witness ==
    /\ EndToEndScenario
    /\ pc = "done"
    /\ Len(result.value) = 3

(* C18: round trip: for any engine state reachable by solve(), exporting
   the state and importing it with the same configuration and a continuation
   horizon of zero additional slots yields an engine whose next selection
   for every post, for any given slot, returns the same guard as the
   pre-export engine's next selection. *)
ZeroHorizonImport ==
    /\ pc = "done"
    /\ pc' = "solve"
    /\ time_slots' = <<>>
    /\ unavailability' = unavailability
C18_RoundTripKeepsNextSelection ==
    [][ZeroHorizonImport =>
          \A k \in DOMAIN posts : \A i \in DOMAIN time_slots :
              _find_best_guard(guard_queues'[posts'[k]], unavailability',
                               guard_states', max_consecutive_nights',
                               guards', time_slots[i]).guard
            = _find_best_guard(guard_queues[posts[k]], unavailability,
                               guard_states, max_consecutive_nights,
                               guards, time_slots[i]).guard]_vars

\* An imported engine with no slot, whose queues were rotated and whose
\* guards carry shifts from before the export
C18_Witness ==
    /\ session = 2
    /\ saved_state.present
    /\ time_slots = <<>>
    /\ unavailability = earlier.unavailability
    /\ earlier.assignments # <<>>
    /\ \E p \in DOMAIN guard_queues : guard_queues[p] # guards
    /\ \E g \in DOMAIN guard_states :
          /\ guard_states[g].last_shift_end # None
          /\ guard_states[g].consecutive_nights > 0

(* C19: continue_from_saved_state called without the reset flag builds an
   engine whose queue for every post and whose statistics for every guard
   equal those recorded in the snapshot, and whose first generated slot
   starts exactly at the snapshot's recorded last_scheduled_end. *)
BuiltFromSnapshot ==
    /\ saved_state.present
    /\ pc = "solve"
    /\ slot_i = 1
    /\ post_i = 1
    /\ assignments = <<>>
    /\ failed_slots = <<>>
\* The statistics of guard g as a snapshot records them
Recorded(g) ==
    [guard_states[g] EXCEPT
        !.last_shift_end = IF @ # None THEN isoformat(@) ELSE NoText]
C19_ContinuationRestoresSnapshot ==
    (BuiltFromSnapshot /\ ~reset_queue_orders) =>
        /\ \A k \in DOMAIN posts :
              guard_queues[posts[k]] = saved_state.guard_queues[posts[k]]
        /\ \A j \in DOMAIN guards :
              Recorded(guards[j]) = saved_state.guard_states[guards[j]]
        /\ time_slots # <<>>
        /\ isoformat(time_slots[1].start)
              = saved_state.schedule_metadata.last_scheduled_end

C19_Witness ==
    /\ BuiltFromSnapshot
    /\ ~reset_queue_orders
    /\ \E p \in DOMAIN guard_queues : guard_queues[p] # guards
    /\ \E g \in DOMAIN guard_states :
          /\ guard_states[g].consecutive_nights > 0
          /\ guard_states[g].last_shift_end # None
    /\ \E g \in DOMAIN guard_states : guard_states[g].last_shift_end = None
    /\ time_slots[1].start = earlier.schedule_start + MaxHorizonHours * 60

(* C20: seamless continuation: for a horizon [t0, t2] and a split instant
   t1 that is a slot boundary of the single run, solving [t0, t1], exporting,
   continuing with continue_from_saved_state to t2 with the same
   unavailability windows and solving again produces assignments whose
   concatenation equals the assignments of one engine solving [t0, t2], with
   the same final queues and guard statistics. *)
\* solve() of one engine over the given slots, from the queues and
\* statistics of run; i and k are the positions of the two loops.
RECURSIVE SingleRun(_, _, _, _)
SingleRun(run, slots, i, k) ==
    IF i > Len(slots) THEN run
    ELSE LET slot == slots[i]
             post == posts[k]
             r == _find_best_guard(run.guard_queues[post], unavailability,
                                   run.guard_states, max_consecutive_nights,
                                   guards, slot)
             assignment == [guard_id |-> r.guard, post_id |-> post,
                            shift_start_time |-> isoformat(slot.start),
                            shift_end_time |-> isoformat(slot.end)]
             after ==
                [guard_queues |-> [run.guard_queues EXCEPT ![post] = r.queue],
                 guard_states |-> IF r.guard # None
                                  THEN _assign_shift(run.guard_states, r.guard, slot)
                                  ELSE run.guard_states,
                 assignments |-> IF r.guard # None
                                 THEN Append(run.assignments, assignment)
                                 ELSE run.assignments]
         IN  IF k = Len(posts) THEN SingleRun(after, slots, i + 1, 1)
             ELSE SingleRun(after, slots, i, k + 1)
\* The slots of one engine constructed for [t0, t2]
SingleSlots ==
    _generate_time_slots(earlier.schedule_start, schedule_end, night_time_range,
                         day_shift_duration, night_shift_duration)
\* t1, the end of the first horizon, starts a slot of the single run
SplitOnSlotBoundary ==
    \E i \in DOMAIN SingleSlots : SingleSlots[i].start = earlier.schedule_end
SplitRunDone ==
    /\ session = 2
    /\ pc = "done"
    /\ unavailability = earlier.unavailability
    /\ SplitOnSlotBoundary
C20_SeamlessContinuation ==
    SplitRunDone =>
        \E single \in {SingleRun([guard_queues |-> earlier.guard_queues,
                                  guard_states |-> earlier.guard_states,
                                  assignments |-> <<>>],
                                 SingleSlots, 1, 1)} :
            /\ earlier.assignments \o assignments = single.assignments
            /\ guard_queues = single.guard_queues
            /\ guard_states = single.guard_states

\* Both parts assigned shifts, some guard was unavailable in each, and
\* the first part left a night streak and rotated queues behind.
C20_Witness ==
    /\ SplitRunDone
    /\ earlier.assignments # <<>>
    /\ assignments # <<>>
    /\ earlier.failed + Len(failed_slots) > 0
    /\ \E p \in DOMAIN guard_queues : saved_state.guard_queues[p] # guards
    /\ \E g \in DOMAIN guard_states :
          saved_state.guard_states[g].consecutive_nights > 0

\* A split off the slot boundaries is reached as well (the claim leaves it out).
C20_WitnessOffBoundary ==
    /\ session = 2
    /\ pc = "done"
    /\ ~SplitOnSlotBoundary

(* C21: when continue_from_saved_state is called with
   reset_queue_orders=True, every post's queue in the new engine equals the
   original input guard order recorded in the snapshot metadata
   (guards_input_order), whatever queue orders the snapshot holds.
   Violated: __init__ is given saved_state and restores the snapshot's
   queues; initial_queue_orders is read only in the branch without it. *)
C21_ResetRestoresInputOrder ==
    (BuiltFromSnapshot /\ reset_queue_orders) =>
        \A k \in DOMAIN posts :
            guard_queues[posts[k]] = saved_state.schedule_metadata.guards_input_order

(* C22: a custom queue order supplied through initial_queue_orders at
   construction or through set_queue_order is accepted only if it is an
   exact permutation of the guard set (every guard exactly once, no missing,
   no extra, no duplicate); any other order raises an error naming the
   missing and/or extra guards, and after a rejected set_queue_order the
   post's queue is unchanged.
   Violated: both validations compare set(order) with set(self.guards), so
   an order that repeats a guard is accepted and becomes the queue. *)
ExactPermutation(order, guard_list) ==
    /\ Len(order) = Len(guard_list)
    /\ Range(order) = Range(guard_list)
\* The orders a call supplies for posts of the engine
SuppliedOrders ==
    IF call.function = "__init__"
    THEN IF call.initial_queue_orders.none THEN {}
         ELSE { call.initial_queue_orders.orders[p] :
                    p \in DOMAIN call.initial_queue_orders.orders }
    ELSE IF call.function = "set_queue_order" /\ call.post \in Range(posts)
    THEN { call.guard_order }
    ELSE {}
NamesMissingOrExtra(error, order) ==
    /\ error.missing = Range(guards) \ Range(order)
    /\ error.unknown = Range(order) \ Range(guards)
    /\ error.missing \cup error.unknown # {}
OrderCallReturned ==
    /\ returned.returned
    /\ call.function \in {"__init__", "set_queue_order"}
    /\ SuppliedOrders # {}
C22_OnlyExactPermutationsAccepted ==
    OrderCallReturned =>
        IF \A order \in SuppliedOrders : ExactPermutation(order, guards)
        THEN ~returned.value.raised
        ELSE /\ returned.value.raised
             /\ \A order \in SuppliedOrders : NamesMissingOrExtra(returned.value, order)
             /\ call.function = "set_queue_order" =>
                   guard_queues = last.queues_before

\* What the code does instead: an order is accepted if and only if its set of
\* guards is the guard set; a rejection names the guards and changes no queue.
C22_AcceptedIffSameSetOfGuards ==
    OrderCallReturned =>
        IF \A order \in SuppliedOrders : Range(order) = Range(guards)
        THEN /\ ~returned.value.raised
             /\ call.function = "set_queue_order" =>
                   guard_queues = [last.queues_before EXCEPT
                                      ![call.post] = call.guard_order]
        ELSE /\ returned.value.raised
             /\ \A order \in SuppliedOrders : NamesMissingOrExtra(returned.value, order)
             /\ call.function = "set_queue_order" =>
                   guard_queues = last.queues_before

(* C28: rotate_queue_to_guard(post, guard) terminates with the given guard
   at the front of that post's queue, the queue being a cyclic rotation of
   its previous order and every other post's queue unchanged; for an unknown
   post or an unknown guard it raises an error and changes no queue. *)
IsRotation(before, after) ==
    /\ Len(after) = Len(before)
    /\ \E n \in 0..(Len(before) - 1) :
          \A i \in DOMAIN before :
              after[i] = before[((i - 1 + n) % Len(before)) + 1]
RotateOutcome ==
    (call.function = "rotate_queue_to_guard" /\ returned.returned) =>
        IF call.post \in Range(posts) /\ call.guard \in Range(guards)
        THEN /\ ~returned.value.raised
             /\ guard_queues[call.post][1] = call.guard
             /\ IsRotation(last.queues_before[call.post], guard_queues[call.post])
             /\ \A p \in DOMAIN guard_queues :
                   p # call.post => guard_queues[p] = last.queues_before[p]
        ELSE /\ returned.value.raised
             /\ guard_queues = last.queues_before
C28_WitnessRaised ==
    /\ call.function = "rotate_queue_to_guard"
    /\ returned.returned
    /\ returned.value.raised
    /\ call.post \in Range(posts)

(* C23: importing a snapshot in which some post's queue is not an exact
   permutation of the guard set (a guard missing, extra or duplicated) fails
   at construction/import time with an error, and never yields an engine
   that runs with that queue.
   Violated: _restore_from_state copies the queues of the document without
   looking at them, and solve() runs on what it was given. *)
C23_InvalidSnapshotQueueNeverRuns ==
    saved_state.present =>
        \A k \in DOMAIN posts :
            ~ExactPermutation(saved_state.guard_queues[posts[k]], guards)
                => pc \notin {"solve", "done"}

(* C24: the engine is deterministic: two engines constructed with identical
   inputs (horizon, guard order, posts, unavailability, shift lengths, night
   window, max consecutive nights) produce identical assignment lists and
   end in identical queue orders and guard statistics.  Stated as: what a
   finished solve() of a fresh engine leaves is the value of one function of
   those inputs. *)
InputsOnly ==
    SingleRun([guard_queues |-> _initialize_guard_queues(posts, guards),
               guard_states |-> FreshStates(guards),
               assignments |-> <<>>],
              _generate_time_slots(schedule_start, schedule_end, night_time_range,
                                   day_shift_duration, night_shift_duration),
              1, 1)
DuringSolve == pc = "solve" /\ pc' \in {"solve", "done"}
C25_SnapshotsNotMutated ==
    [][DuringSolve =>
          /\ saved_state' = saved_state
          /\ returned.returned =>
                /\ returned'.value.guard_queues = returned.value.guard_queues
                /\ returned'.value.guard_states = returned.value.guard_states]_vars

\* An engine built from a snapshot has solved, and an engine that exported
\* has solved again: both documents are behind the engines' statistics.
C25_Witness ==
    /\ pc = "done"
    /\ session = 2
    /\ saved_state.present
    /\ call.function = "solve"
    /\ returned.returned
    /\ returned.value.exported_by = 1
    /\ returned.value.guard_states # saved_state.guard_states
    /\ \E g \in DOMAIN guard_states :
          guard_states[g].total_shifts > saved_state.guard_states[g].total_shifts

(* C26: the scheduler prevents back-to-back shifts: in the assignments
   returned by solve(), no guard is assigned a shift that starts at the
   instant that guard's previous shift ended (no guard works two consecutive
   slots).
   Violated: _is_guard_available looks at the unavailability windows only,
   and last_shift_end is written by _assign_shift but read by nothing. *)
C26_NoBackToBackShifts ==
    (pc = "done" /\ ~result.none) =>
        \A i, j \in DOMAIN result.value :
            result.value[i].guard_id = result.value[j].guard_id
                => result.value[j].shift_start_time # result.value[i].shift_end_time

(* C27: the roster bounds consecutive night shifts: in every state
   reachable by solve(), no guard's consecutive_nights counter exceeds
   max_consecutive_nights.
   Violated: a streak at the limit adds a penalty of 100 to a night slot, and
   the guard of least penalty is still selected. *)
C27_NightStreakBounded ==
    \A g \in DOMAIN guard_states :
        guard_states[g].consecutive_nights <= max_consecutive_nights

(* C29: no double booking: in the assignments returned by solve() with two
   or more posts, no guard appears in two assignments for the same slot
   (same shift start) at different posts.
   Violated: every post has its own queue, and a selection for one post
   does not look at the assignments the slot already has. *)
C29_NoDoubleBooking ==
    (pc = "done" /\ ~result.none /\ Len(posts) >= 2) =>
        \A i, j \in DOMAIN result.value :
            (/\ result.value[i].guard_id = result.value[j].guard_id
             /\ result.value[i].shift_start_time = result.value[j].shift_start_time)
                => result.value[i].post_id = result.value[j].post_id

(* C30: across a run and its continuation, no slot generated by the
   continued engine overlaps in time a slot generated by the prior run, for
   every horizon end of the prior run (including one that is not a multiple
   of the shift lengths past its start, where the prior run's last slot ends
   after last_scheduled_end).
   Violated: the last slot of a run is not clipped to schedule_end, the
   export records schedule_end, and the continuation starts its first slot
   there. *)
EarlierSlots ==
    _generate_time_slots(earlier.schedule_start, earlier.schedule_end,
                         night_time_range, day_shift_duration,
                         night_shift_duration)
C30_ContinuationSlotsDoNotOverlap ==
    (earlier.present /\ saved_state.present) =>
        \A i \in DOMAIN EarlierSlots : \A j \in DOMAIN time_slots :
            \/ EarlierSlots[i].end <= time_slots[j].start
            \/ time_slots[j].end <= EarlierSlots[i].start

\* When the prior horizon ends where its last slot ends, the slots of the
\* two runs do not overlap.
C30_NoOverlapWhenHorizonEndsOnSlotEnd ==
    (/\ earlier.present
     /\ saved_state.present
     /\ EarlierSlots # <<>>
     /\ EarlierSlots[Len(EarlierSlots)].end = earlier.schedule_end) =>
        \A i \in DOMAIN EarlierSlots : \A j \in DOMAIN time_slots :
            \/ EarlierSlots[i].end <= time_slots[j].start
            \/ time_slots[j].end <= EarlierSlots[i].start

(* C31: for every post, the queue is at all times during solve() a cyclic
   rotation of that post's initial queue order: a successful selection only
   rotates the queue so that the guard following the selected guard becomes
   the front, and never changes the cyclic order of guards. *)
\* The queue turned so that the guard after position n is at the front
TurnedPast(queue, n) == SubSeq(queue, n + 1, Len(queue)) \o SubSeq(queue, 1, n)
C31_QueueStaysCyclicRotation ==
    /\ \A k \in DOMAIN posts :
          IsRotation(ConstructedQueues[posts[k]], guard_queues[posts[k]])
    /\ last.outcome = "assigned" =>
          guard_queues[last.post]
            = TurnedPast(LastQueueBefore, PositionIn(LastQueueBefore, last.guard))

\* A selection that passed over two guards of a queue already turned,
\* and took a guard from the middle of it
C31_Witness ==
    /\ last.outcome = "assigned"
    /\ Len(guards) >= 4
    /\ LastQueueBefore # guards
    /\ PositionIn(LastQueueBefore, last.guard) = 3
    /\ guard_queues[last.post][1] = LastQueueBefore[4]

(* C32: statistics agree with the roster at every point of solve(): each
   guard's total_shifts equals its value at construction (0, or the restored
   snapshot value) plus the number of assignments made to that guard so far,
   total_hours equals its initial value plus the summed duration of those
   assignments, and consecutive_nights never exceeds total_shifts. *)
\* The assignments made so far, those of the slot in progress included
MadeSoFar == assignments \o slot_assignments
MadeTo(g) == SelectSeq(MadeSoFar, LAMBDA a : a.guard_id = g)
RECURSIVE SummedDuration(_)
SummedDuration(list) ==
    IF list = <<>> THEN 0
    ELSE fromisoformat(Head(list).shift_end_time)
            - fromisoformat(Head(list).shift_start_time)
            + SummedDuration(Tail(list))
C32_StatisticsAgreeWithRoster ==
    \A j \in DOMAIN guards :
        LET g == guards[j]
        IN  /\ guard_states[g].total_shifts
                  = ConstructedStates[g].total_shifts + Len(MadeTo(g))
            /\ guard_states[g].total_hours
                  = ConstructedStates[g].total_hours + SummedDuration(MadeTo(g))
            /\ guard_states[g].consecutive_nights <= guard_states[g].total_shifts

\* In the middle of a slot of a continued run: a guard restored with shifts
\* has been given day and night shifts of different lengths since
C32_Witness ==
    /\ pc = "solve"
    /\ saved_state.present
    /\ slot_assignments # <<>>
    /\ day_shift_duration # night_shift_duration
    /\ \E g \in DOMAIN guard_states :
          /\ ConstructedStates[g].total_shifts > 0
          /\ Len(MadeTo(g)) >= 2
          /\ \E a, b \in Range(MadeTo(g)) :
                SummedDuration(<<a>>) # SummedDuration(<<b>>)

(* C33: when there are at most 5 guards, every successful selection returns
   a guard whose penalty is the minimum over all guards available for the
   slot (the bounded lookahead never costs optimality at that size); with
   more than 5 guards a guard beyond the examined prefix is never returned. *)
SelectedPosition == PositionIn(LastQueueBefore, last.guard)
C33_LookaheadOptimalUpToFiveGuards ==
    last.outcome = "assigned" =>
        /\ AvailableAt(SelectedPosition)
        /\ last.penalty = PenaltyBefore(SelectedPosition)
        /\ Len(guards) <= 5 =>
              \A i \in DOMAIN LastQueueBefore :
                  AvailableAt(i) => last.penalty <= PenaltyBefore(i)
        /\ Len(guards) > 5 => SelectedPosition <= last.checked_guards

\* Five guards, all examined, every available one penalised: the one of
\* least penalty is the fourth or fifth of the queue
C33_Witness ==
    /\ last.outcome = "assigned"
    /\ Len(guards) = 5
    /\ last.checked_guards = 5
    /\ last.penalty > 0
    /\ SelectedPosition >= 4
    /\ \E i \in 1..3 : AvailableAt(i) /\ PenaltyBefore(i) > last.penalty

\* Six guards: the scan stopped after five, and the sixth was available
\* with a smaller penalty than the guard returned
C33_WitnessBeyondPrefix ==
    /\ last.outcome = "assigned"
    /\ Len(guards) = 6
    /\ last.checked_guards = 5
    /\ AvailableAt(6)
    /\ PenaltyBefore(6) < last.penalty

(* C34: the two scheduler variants agree: for the same horizon, guards,
   unavailability, shift lengths, night window and max consecutive nights,
   QueueScheduler with every post configured always-required produces the
   same assignment list and the same final queues and guard statistics as
   ShiftScheduler given the same posts in the same order. *)
EveryPostAlwaysRequired ==
    \A k \in DOMAIN posts : AlwaysRequired(post_configs[posts[k]])
C34_VariantsAgree ==
    (pc = "done" /\ EveryPostAlwaysRequired) =>
        \E run \in {InputsOnly} :
            /\ assignments = run.assignments
            /\ result = IF run.assignments # <<>>
                        THEN [none |-> FALSE, value |-> run.assignments]
                        ELSE [none |-> TRUE, value |-> <<>>]
            /\ guard_queues = run.guard_queues
            /\ guard_states = run.guard_states

\* Two posts, one without the key is_24_7 and one with is_24_7 true, both
\* staffed and once unstaffed, the queues of the two posts turned apart
C34_Witness ==
    /\ pc = "done"
    /\ EveryPostAlwaysRequired
    /\ Len(posts) = 2
    /\ ~post_configs[posts[1]].has_is_24_7
    /\ post_configs[posts[2]].has_is_24_7
    /\ Len(guards) >= 2
    /\ failed_slots # <<>>
    /\ \E i, j \in DOMAIN assignments :
          assignments[i].post_id = posts[1] /\ assignments[j].post_id = posts[2]
    /\ guard_queues[posts[1]] # guard_queues[posts[2]]

(* C35: in QueueScheduler a post is gated by its requirement evaluated at
   the slot's start instant only: when the post is not required at
   slot.start, no selection is attempted for that (slot, post) pair, the
   post's queue and all guard statistics are unchanged, and no unmet demand
   is recorded, even if the slot's interval overlaps the post's required
   hours. *)
C35_GatedAtSlotStartOnly ==
    /\ \A i \in DOMAIN time_slots : \A k \in DOMAIN posts :
          ~PostRequiredAt(k, i) => AssignmentsFor(i, k) = 0 /\ UnmetFor(i, k) = 0
    /\ last.outcome = "skipped" <=>
          /\ last.slot \in DOMAIN time_slots
          /\ ~PostRequiredAt(PositionIn(posts, last.post), last.slot)
    /\ last.outcome = "skipped" =>
          /\ guard_queues = last.queues_before
          /\ guard_states = last.states_before
          /\ last.guard = None
          /\ last.checked_guards = 0

\* A pair skipped although the post is required during the slot and a guard
\* was free for it: required from 09:00, the slot runs from 06:00 to 14:00
C35_Witness ==
    /\ last.outcome = "skipped"
    /\ \E g \in Range(guards) : AvailableFor(g, LastSlot)
    /\ LastSlot.start % 1440 < 540
    /\ LastSlot.end % 1440 > 540
    /\ _is_post_required_at_time(post_configs[last.post], LastSlot.start + 180).value
    /\ \E t \in {LastSlot.start + 180, LastSlot.end - 1} :
          _is_post_required_at_time(post_configs[last.post], t).value
    /\ assignments # <<>>

(* C36: for a well-formed request (unique guards and posts given as lists
   of names, end after start) in which at least one guard is available for
   at least one slot, the create_schedule operation returns success=True
   with the engine's non-empty assignment list; it returns success=False
   only when the engine produced zero assignments or the request is
   invalid. *)
WellFormedRequest(request) ==
    /\ request.guards # <<>> /\ request.posts.items # <<>>
    /\ \A a, b \in DOMAIN request.guards :
          request.guards[a] = request.guards[b] => a = b
    /\ \A a, b \in DOMAIN request.posts.items :
          request.posts.items[a] = request.posts.items[b] => a = b
    /\ fromisoformat(request.schedule_end_datetime)
          > fromisoformat(request.schedule_start_datetime)
RequestSlots(request) ==
    _generate_time_slots(fromisoformat(request.schedule_start_datetime),
                         fromisoformat(request.schedule_end_datetime),
                         request.night_time_range,
                         request.shift_lengths.day_shift_hours,
                         request.shift_lengths.night_shift_hours)
SomeGuardAvailable(request) ==
    \E slots \in {RequestSlots(request)} :
        \E i \in DOMAIN slots : \E g \in Range(request.guards) :
            _is_guard_available(request.unavailability, g,
                                slots[i].start, slots[i].end)
C36_WellFormedRequestSucceeds ==
    (call.function = "create_schedule" /\ returned.returned) =>
        /\ (WellFormedRequest(call.request) /\ SomeGuardAvailable(call.request)) =>
              /\ returned.value.success
              /\ returned.value.assignments # <<>>
        /\ ~returned.value.success =>
              \/ ~WellFormedRequest(call.request)
              \/ ~SomeGuardAvailable(call.request)

\* What the handler does return: no request is answered with success
C36_EveryRequestFails ==
    (call.function = "create_schedule" /\ returned.returned) =>
        /\ ~returned.value.success
        /\ returned.value.assignments = <<>>
        /\ returned.value.error
              = IF WellFormedRequest(call.request)
                THEN "Unexpected error generating schedule"
                ELSE "Schedule end time must be after start time"

====
